---- MODULE Spec2Model ----
(***************************************************************************)
(* Verification model of the find_my_home ingestion pipeline.              *)
(*                                                                         *)
(* SpecFetch  : the retrying GET of the three source clients               *)
(*              (_request / _request_raw) with the clients' _throttle,     *)
(*              run by one caller on a clock that counts half seconds.     *)
(* SpecShared : the same, for the one KBPriceClient that the group tasks   *)
(*              of the parallel KB batch call side by side.                *)
(* SpecKB     : the parallel KB batch (update_kb_prices_parallel and       *)
(*              _process_dong_group) over the shared store session.        *)
(* SpecTx     : the scheduled transactions job (run_real_transaction_job,  *)
(*              collect_and_save, fetch_all_transactions).                 *)
(* SpecCrawl  : the listings crawls of a region (crawl_region and          *)
(*              crawl_region_incremental over crawl_complex), the source   *)
(*              changing between crawls.                                   *)
(* SpecPages  : _get_complexes_in_dong over get_complex_list_in_region.    *)
(* SpecSched  : start_scheduler, the triggers and returns of its three     *)
(*              jobs, stop_scheduler.                                      *)
(* SpecIngest : save_transactions run by processes that share the store.   *)
(* SpecCompare: update_all_comparisons between KB collections, ingested    *)
(*              transactions and passing days.                             *)
(* SpecRerun  : one ingestion (listings crawl, transactions batch, KB      *)
(*              collection, comparison pass) run twice over one snapshot.  *)
(* SpecCall   : the functions that compute a value from their arguments    *)
(*              alone, each called on arguments drawn from bounded sets.   *)
(* SpecKBFair : SpecKB with the event loop running every task that can     *)
(*              take a step.                                               *)
(* SpecBatch  : scripts/batch_crawl.py, the cooldown between regions.      *)
(* SpecHistorical : scripts/collect_historical.py, its progress file       *)
(*              over several runs.                                         *)
(* SpecJob    : run_real_transaction_job, the rows its one session holds   *)
(*              and commits, region after region.                          *)
(***************************************************************************)
EXTENDS Integers, Sequences, FiniteSets, TLC

\* ------------------------------------------------------------------------
\* Program constants.  Durations are in half seconds, so that 1.5 s is 3.
\* ------------------------------------------------------------------------
MAX_RETRIES == 3
RETRY_BACKOFF_BASE == 2
KB_DELAY_SECONDS == 3
REQUEST_DELAY == 2
DEFAULT_NUM_OF_ROWS == 1000
CRAWLER_DELAY_SECONDS == 3
\* The comparison counts time in periods of 45 days, so that 90 days are 2.
RECENT_DEAL_DAYS == 2
area_tolerance == 3
\* settings.BATCH_API_CALL_LIMIT and settings.BATCH_COOLDOWN_SECONDS
BATCH_API_CALL_LIMIT == 180
BATCH_COOLDOWN_SECONDS == 600

\* ------------------------------------------------------------------------
\* Bounds of the model.
\* ------------------------------------------------------------------------
MaxCallers == 2
MaxCalls == 2

NumComplexes == 3
NumDongs == 2
MaxConcurrency == 2
MaxAreas == 2
NumRegions == 2

NumArticles == 2
MaxRepriced == 1
MaxHeld == 4
MaxPerPage == 2
MaxInvocations == 3
MaxRows == 2
NumRuns == 2
MaxBatch == 2
MaxItems == 2
MaxNameLen == 3
MaxCands == 2
MaxPrice == 6
MaxDay == 3
MaxTx == 2
MaxRecords == 3
MaxTypes == 2
MaxRegionCalls == 200
MaxMonths == 2

Callers == 1..MaxCallers

VARIABLES
    kind,       \* which client the callers share: "naver", "kb" or "rt"
    cpc,        \* per caller: "off", "idle", "throttle", "await", "backoff"
    attempt,    \* per caller: the loop variable of the retry loop
    timer,      \* per caller: half seconds left of the current asyncio.sleep
    gets,       \* per caller: GETs issued by the current call
    sleeps,     \* per caller: backoff sleeps started by the current call
    lastResp,   \* per caller: the outcome of the latest GET of the call
    result,     \* per caller: "pending", "None", "payload" or "raised"
    calls,      \* per caller: calls completed
    sinceLast,  \* half seconds since the client's latest GET (capped)
    lastGap     \* sinceLast as it was when the latest GET was issued

fetchVars == <<kind, cpc, attempt, timer, gets, sleeps, lastResp, result,
               calls, sinceLast, lastGap>>

VARIABLES
    dong_code,    \* ApartmentComplex.dong_code of every complex (NULL = None)
    phase,        \* update_kb_prices_parallel: "init", "running", "done"
    concurrency,  \* its argument
    sem,          \* value of asyncio.Semaphore(concurrency)
    dong_groups,  \* per dong_code key: the complexes of the group, in order
    gpc,          \* per group task: "none", "gate", "list", "prices", "done"
    idx,          \* per group task: position of the loop over its complexes
    kb_list,      \* per group task: its local kb_list
    listCalls,    \* per group task: get_complex_list invocations
    httpUsed,     \* per group task: has it had a client call answered
    sessionOf,    \* per group task: the session it was handed (0 = none)
    usedList,     \* per complex: the list match_from_list was given for it
    handled,      \* per complex: times it was counted into a task's stats
    stats,        \* per group task: matched / saved / failed
    db,           \* the session: pending and committed KBPrice rows
    lastCommit,   \* complex whose iteration committed last, owners of the rows
    lastRollback, \* complex whose iteration rolled back last, owners of the rows
    total_stats   \* what update_kb_prices_parallel returns

kbVars == <<dong_code, phase, concurrency, sem, dong_groups, gpc, idx, kb_list,
            listCalls, httpUsed, sessionOf, usedList, handled, stats, db,
            lastCommit, lastRollback, total_stats>>

VARIABLES
    tx_phase,     \* run_real_transaction_job: "idle", "running", "returned"
    region,       \* position of its loop over settings.TARGET_REGIONS
    page_no,      \* fetch_all_transactions: the page asked for next
    all_results,  \* fetch_all_transactions: records accumulated so far
    results,      \* the job's results: "fetched" of every region's stats
    denied,       \* a call of this job has been answered 401 or 403
    getAfterDenied, \* a GET was issued by this job after such an answer
    this_month,   \* the calendar month of datetime.now() when the job starts
    deal_ymd,     \* the job's deal_ymd
    asked         \* the (region, month) pairs collect_and_save was called for

txVars == <<tx_phase, region, page_no, all_results, results, denied,
            getAfterDenied, this_month, deal_ymd, asked>>

VARIABLES
    snap,         \* the listings source: what it holds of every article
    store,        \* committed ApartmentComplex and Listing rows
    sess,         \* the rows as the crawl's session db sees them
    base,         \* the committed rows when the current crawl started
    crawl_mode,   \* "none", "full" (crawl_region), "incr" (crawl_region_incremental)
    crawl_pc,     \* "idle", "dongs", "complexes", "phase1", "targets"
    dong_i,       \* position of the loop over dong_list
    all_complexes,  \* incremental: complexes collected in phase 1
    queue,        \* complexes the running for loop has still to crawl
    asked_articles, \* complexes an article-list request was issued for
    skipped_same, \* incremental: its skipped_same
    crawl_targets,  \* incremental: its crawl_targets
    afterBulk,    \* incremental: the session's rows right after phase 3
    commits,      \* db.commit() calls of the current crawl that succeeded
    crawl_out,    \* "-", "returned" or "raised": how the latest crawl ended
    dropped,      \* the latest rollback discarded pending writes
    lastCx,       \* complex whose crawl_complex returned last (0 = none)
    lastIds,      \* the article ids that call fetched
    clean,        \* every source call of the current crawl was answered whole
    sinceFull     \* the store is that of a clean full crawl of snap

crawlVars == <<snap, store, sess, base, crawl_mode, crawl_pc, dong_i,
               all_complexes, queue, asked_articles, skipped_same,
               crawl_targets, afterBulk, commits, crawl_out, dropped, lastCx,
               lastIds, clean, sinceFull>>

VARIABLES
    held,         \* how many complexes the source holds for each dong
    page_dong,    \* _get_complexes_in_dong: its dong_code, 0 before a call
    per_page,     \* how many complexes the source puts on one page
    dong_page,    \* its page
    got_complexes,  \* its all_complexes
    pages_pc      \* "idle", "loop", "returned", "nodata"

pageVars == <<held, page_dong, per_page, dong_page, got_complexes, pages_pc>>

VARIABLES
    scheduler,    \* _scheduler: "none", "running" or "stopped"
    running,      \* per job id: invocations running now
    refused,      \* per job id: triggers that found an invocation running
    complex_rows, \* rows of the apartment_complex table
    first_run,    \* run_naver_crawl_job: first_run of the latest invocation
    modes         \* the mode of every listings crawl invocation, in order

schedVars == <<scheduler, running, refused, complex_rows, first_run, modes>>

VARIABLES
    rt_rows,      \* committed real_transaction rows: how many per record
    ingest_pc,    \* per run: "idle", "loop", "commit" or "raised"
    cx_rows,      \* committed apartment_complex rows created for the new name
    created,      \* per run: its session holds a complex it created
    batch,        \* per run: the records save_transactions has still to handle
    pending,      \* per run: rows added to its session, not yet committed
    saved_count,  \* per run: its saved_count
    duplicate_count,  \* per run: its duplicate_count
    runs_done     \* per run: save_transactions calls that returned

ingestVars == <<rt_rows, ingest_pc, cx_rows, created, batch, pending, saved_count, duplicate_count,
                runs_done>>

VARIABLES
    call_fn,   \* the function that is called
    call_arg,  \* its arguments
    returned,  \* whether the call has returned
    call_ret   \* what it returned: <<>> for None, <<v>> for a value v

callVars == <<call_fn, call_arg, returned, call_ret>>

VARIABLES
    today,               \* the date, counted in periods of 45 days
    kb_price,            \* the kb_price row of the one (complex, area)
    real_transaction,    \* the real_transaction rows: how many per deal
    complex_comparison,  \* the complex_comparison row of that (complex, area)
    compared,            \* what update_all_comparisons has just returned
    feed,                \* what the three sources hold while a run is repeated
    step,                \* how many steps of the two runs are done
    apartment_complex,   \* the apartment_complex row of the feed's complex
    listing,             \* the listing row of the feed's article
    after_first          \* the rows as the first of the two runs left them

compareVars == <<today, kb_price, real_transaction, complex_comparison,
                 compared, feed, step, apartment_complex, listing,
                 after_first>>

VARIABLES
    api_call_count,  \* NaverLandClient.api_call_count of the batch's crawler
    batch_pc,        \* run_batch: "off", "check", "cooldown", "pause", "crawl", "done"
    region_index,    \* region_index of the region that is being handled
    call_count,      \* call_count as crawl_region_with_cooldown read it
    waited,          \* seconds slept for this region before its crawl
    progress,        \* the set done of run(), as collect_progress.json holds it
    hist_pc,         \* collect_historical: "off", "idle" or "running"
    hist_at,         \* position of run() in its loops over months and regions
    hist_runs,       \* runs of the script so far
    fetched,         \* units whose transactions the source has handed over
    collected        \* per unit: calls of collect_and_save, and how many when recorded

scriptVars == <<api_call_count, batch_pc, region_index, call_count, waited,
                progress, hist_pc, hist_at, hist_runs, fetched, collected>>

\* run_real_transaction_job: one session for all target regions
VARIABLES
    job_pc,          \* where the job is
    job_region,      \* the target region the loop of the job is at
    db_session,      \* the session of the job: "none", "active", "inactive" or "closed"
    job_batch,       \* the records save_transactions has still to handle
    name_cached,     \* match_cache of the call holds the new name
    job_saved,       \* saved_count of the call
    job_created,     \* created_count of the call
    session_new,     \* per region: rows it added that the session holds uncommitted
    persisted,       \* per region: rows it added that are committed
    failed_regions,  \* regions whose collect_and_save raised
    lost_rows        \* per region: rows it had added when its ingestion raised

jobVars == <<job_pc, job_region, db_session, job_batch, name_cached, job_saved,
             job_created, session_new, persisted, failed_regions, lost_rows>>

\* What the actions of one specification leave alone.
notFetch == <<kbVars, txVars, crawlVars, pageVars, schedVars, ingestVars, callVars, compareVars, scriptVars, jobVars>>
notKb == <<fetchVars, txVars, crawlVars, pageVars, schedVars, ingestVars, callVars, compareVars, scriptVars, jobVars>>
notTx == <<fetchVars, kbVars, crawlVars, pageVars, schedVars, ingestVars, callVars, compareVars, scriptVars, jobVars>>
notCrawl == <<fetchVars, kbVars, txVars, pageVars, schedVars, ingestVars, callVars, compareVars, scriptVars, jobVars>>
notPages == <<fetchVars, kbVars, txVars, crawlVars, schedVars, ingestVars, callVars, compareVars, scriptVars, jobVars>>
notSched == <<fetchVars, kbVars, txVars, crawlVars, pageVars, ingestVars, callVars, compareVars, scriptVars, jobVars>>
notIngest == <<fetchVars, kbVars, txVars, crawlVars, pageVars, schedVars, callVars, compareVars, scriptVars, jobVars>>
notCall == <<fetchVars, kbVars, txVars, crawlVars, pageVars, schedVars, ingestVars, compareVars, scriptVars, jobVars>>
notCompare == <<fetchVars, kbVars, txVars, crawlVars, pageVars, schedVars, ingestVars, callVars, scriptVars, jobVars>>
notScripts == <<fetchVars, kbVars, txVars, crawlVars, pageVars, schedVars, ingestVars, callVars, compareVars, jobVars>>
notJob == <<fetchVars, kbVars, txVars, crawlVars, pageVars, schedVars, ingestVars, callVars, compareVars, scriptVars>>

vars == <<fetchVars, kbVars, txVars, crawlVars, pageVars, schedVars, ingestVars, callVars, compareVars, scriptVars, jobVars>>

\* ------------------------------------------------------------------------
\* HTTP outcomes of one client.get
\* ------------------------------------------------------------------------
Kinds == {"naver", "kb", "rt"}

NoResp == [status |-> "-", code |-> "-", body |-> "-"]

\* What one client.get can produce: a status, or one of the two exception
\* families the loop catches.  A 200 of the appraisal source carries the
\* envelope {dataHeader: {resultCode}, dataBody}.  A "garbled" body is one
\* response.json() cannot decode; the transactions client returns
\* response.text and decodes nothing.
Responses(k) ==
    LET failures == [status : {"429", "401", "403", "500", "timeout", "httperror"},
                     code : {"-"}, body : {"-"}]
    IN  CASE k = "kb" ->
                failures \cup [status : {"200"},
                               code : {"10000", "nodata", "error"},
                               body : {"data", "null"}]
                         \cup [status : {"200"}, code : {"-"}, body : {"garbled"}]
          [] k = "naver" ->
                failures \cup [status : {"200"}, code : {"-"},
                               body : {"data", "garbled"}]
          [] OTHER ->
                failures \cup [status : {"200"}, code : {"-"}, body : {"data"}]

\* self._delay / REQUEST_DELAY of the client
Delay(k) ==
    CASE k = "kb" -> KB_DELAY_SECONDS
      [] k = "rt" -> REQUEST_DELAY
      [] OTHER -> CRAWLER_DELAY_SECONDS

RECURSIVE Pow(_, _)
Pow(b, e) == IF e = 0 THEN 1 ELSE b * Pow(b, e - 1)

\* wait = RETRY_BACKOFF_BASE ** attempt            (seconds -> half seconds)
BackoffWait(a) == 2 * Pow(RETRY_BACKOFF_BASE, a)
\* wait = RETRY_BACKOFF_BASE ** attempt * 2        (seconds -> half seconds)
RateLimitWait(a) == 2 * (Pow(RETRY_BACKOFF_BASE, a) * 2)

\* The value a 200 response makes the call return.
OkResult(k, r) ==
    IF k = "kb"
    THEN \* both branches of the resultCode test return data.get("dataBody")
         IF r.body = "null" THEN "None" ELSE "payload"
    ELSE "payload"

\* Handle with 401/403 treated like any other error status.
HandleRetryDenied(r, a) ==
    CASE r.status = "200" -> IF r.body = "garbled" THEN "raise" ELSE "return"
      [] r.status = "429" -> "sleep429"
      [] OTHER -> IF a < MAX_RETRIES THEN "sleep" ELSE "fall"

\* What the loop body does with the outcome of attempt a:
\*   "return"  - the call returns OkResult
\*   "raise"   - response.json() raises; no except clause of the loop
\*               catches it, the call ends with the exception
\*   "deny"    - the call returns None at once
\*   "sleep429"- sleep RateLimitWait(a), then continue
\*   "sleep"   - sleep BackoffWait(a), then the next iteration
\*   "fall"    - last attempt: leave the loop, return None
Handle(r, a) ==
    CASE r.status = "200" -> IF r.body = "garbled" THEN "raise" ELSE "return"
      [] r.status = "429" -> "sleep429"
      [] r.status \in {"401", "403"} -> "deny"
      [] OTHER -> IF a < MAX_RETRIES THEN "sleep" ELSE "fall"

\* LoopContinues with the range one too long.
LoopContinuesOffByOne(a) == a <= MAX_RETRIES

\* After a sleep of the loop: is there another iteration?
LoopContinues(a) == a < MAX_RETRIES

Min(a, b) == IF a < b THEN a ELSE b

\* ------------------------------------------------------------------------
\* The store and the KB batch before update_kb_prices_parallel is called
\* ------------------------------------------------------------------------
Complexes == 1..NumComplexes
NULL == 0
DongCodes == 1..NumDongs
\* keys a defaultdict keyed by c.dong_code can get
Keys == DongCodes \cup {NULL}
\* a KB complex that is none of the store's
OtherKb == 0
KbNames == Complexes \cup {OtherKb}
Areas == 1..MaxAreas

NoStats == [matched |-> 0, saved |-> 0, failed |-> 0]
NoMark == [by |-> 0, owners |-> {}]

\* Everything of the batch but the store's dong_code column.
KbFresh ==
    /\ phase = "init"
    /\ sem = 0
    /\ dong_groups = [g \in Keys |-> <<>>]
    /\ gpc = [g \in Keys |-> "none"]
    /\ idx = [g \in Keys |-> 1]
    /\ kb_list = [g \in Keys |-> {}]
    /\ listCalls = [g \in Keys |-> 0]
    /\ httpUsed = [g \in Keys |-> FALSE]
    /\ sessionOf = [g \in Keys |-> 0]
    /\ usedList = [c \in Complexes |-> {}]
    /\ handled = [c \in Complexes |-> 0]
    /\ stats = [g \in Keys |-> NoStats]
    /\ db = [id |-> 0, pending |-> {}, committed |-> {}]
    /\ lastCommit = NoMark
    /\ lastRollback = NoMark
    /\ total_stats = [total_complexes |-> 0, dong_groups |-> 0, matched |-> 0,
                      saved |-> 0, failed |-> 0, errors |-> 0]

\* The batch is not part of the specification.
KbOff ==
    /\ dong_code = [c \in Complexes |-> NULL]
    /\ concurrency = 1
    /\ KbFresh

\* Calendar months, and what strftime("%Y%m") makes of one.
Months == [y : {2025, 2026}, m : {1, 2, 12}]
NoMonth == [y |-> 0, m |-> 0]
Strftime_Ym(d) == d.y * 100 + d.m

\* run_real_transaction_job before it is called.
TxIdle ==
    /\ tx_phase = "idle"
    /\ region = 1
    /\ page_no = 1
    /\ all_results = 0
    /\ results = <<>>
    /\ denied = FALSE
    /\ getAfterDenied = FALSE
    /\ deal_ymd = 0
    /\ asked = {}

\* The transactions job has not been started.
TxOff ==
    /\ TxIdle
    /\ this_month = NoMonth

\* ------------------------------------------------------------------------
\* The listings store and source of the crawler
\* ------------------------------------------------------------------------
\* The district of the model: two dongs, a complex in each (by
\* naver_complex_no), and the articles by id.
Listed == {1, 2}
Articles == 1..NumArticles

\* The complex the source shows an article under.
OwnerOf(a) == IF a % 2 = 1 THEN 1 ELSE 2

\* dong_list of the district, and the dong a complex lies in.
DongList == <<1, 2>>
DongOf(c) == c

\* What the source holds of an article: nothing, an article whose price or
\* area does not parse, or an article with a price.  The first MaxRepriced
\* articles are seen at two prices.
Prices == {"p1", "p2"}
Snaps ==
    {sn \in [Articles -> {"absent", "bad"} \cup Prices] :
        \A a \in Articles : sn[a] = "p2" => a <= MaxRepriced}

\* A Listing row (asking_price, is_active), or no row.
NoRow == [price |-> "-", active |-> FALSE]
Rows == {NoRow} \cup [price : Prices, active : BOOLEAN]

\* ApartmentComplex rows by naver_complex_no, Listing rows by
\* naver_article_id.
EmptyStore == [complexes |-> {}, listings |-> [a \in Articles |-> NoRow]]

\* No crawl has been started.
CrawlIdle ==
    /\ store = EmptyStore
    /\ sess = EmptyStore
    /\ base = EmptyStore
    /\ crawl_mode = "none"
    /\ crawl_pc = "idle"
    /\ dong_i = 1
    /\ all_complexes = <<>>
    /\ queue = <<>>
    /\ asked_articles = {}
    /\ skipped_same = 0
    /\ crawl_targets = <<>>
    /\ afterBulk = EmptyStore
    /\ commits = 0
    /\ crawl_out = "-"
    /\ dropped = FALSE
    /\ lastCx = 0
    /\ lastIds = {}
    /\ clean = TRUE
    /\ sinceFull = FALSE

\* The crawler is not part of the specification.
CrawlOff ==
    /\ snap = [a \in Articles |-> "absent"]
    /\ CrawlIdle

\* _get_complexes_in_dong is not part of the specification.
PagesOff ==
    /\ held = [d \in 1..NumDongs |-> 0]
    /\ page_dong = 0
    /\ per_page = 1
    /\ dong_page = 1
    /\ got_complexes = <<>>
    /\ pages_pc = "idle"

\* The job ids start_scheduler registers.
Jobs == {"naver_compare_job", "kb_price_job", "real_transaction_job"}

\* The scheduler has not been started.
SchedOff ==
    /\ scheduler = "none"
    /\ running = [j \in Jobs |-> 0]
    /\ refused = [j \in Jobs |-> 0]
    /\ complex_rows = 0
    /\ first_run = FALSE
    /\ modes = <<>>

\* Processes that run save_transactions against the one store.
Runs == 1..NumRuns

\* The records of the transactions source, which differ in apt_name (1: the
\* name of a complex of the region that is stored, 2: a name that matches no
\* stored complex under any strategy; one record has it), floor (None for
\* some) and deal_price; area and deal date are the same for all.
Txs ==
    {t \in [apt_name : {1, 2}, floor : {NULL, 1}, deal_price : {1, 2}] :
        t.apt_name = 2 => (t.floor = 1 /\ t.deal_price = 1)}

\* No ingestion has been started.
IngestOff ==
    /\ rt_rows = [t \in Txs |-> 0]
    /\ ingest_pc = [r \in Runs |-> "idle"]
    /\ cx_rows = 0
    /\ created = [r \in Runs |-> FALSE]
    /\ batch = [r \in Runs |-> <<>>]
    /\ pending = [r \in Runs |-> [t \in Txs |-> 0]]
    /\ saved_count = [r \in Runs |-> 0]
    /\ duplicate_count = [r \in Runs |-> 0]
    /\ runs_done = [r \in Runs |-> 0]

\* The real_transaction rows that ingestion may store: deals of complex 1
\* at or past the edge of the tolerance, and deals of complex 2.
Deals ==
    {t \in [complex_id : {1, 2}, area_sqm : {62, 63}, deal_date : 0..MaxDay,
            deal_price : {9, 11}] :
        t.complex_id = 2 => (t.area_sqm = 62 /\ t.deal_price = 11)}

\* No row of kb_price, real_transaction and complex_comparison, where a
\* row is <<>> when it is missing and <<r>> when it holds r.
CompareOff ==
    /\ today = 0
    /\ kb_price = <<>>
    /\ real_transaction = [t \in Deals |-> 0]
    /\ complex_comparison = <<>>
    /\ compared = <<>>
    /\ feed = <<>>
    /\ step = 0
    /\ apartment_complex = <<>>
    /\ listing = NoRow
    /\ after_first = <<>>

\* No function is called on its own.
CallOff ==
    /\ call_fn = "none"
    /\ call_arg = <<>>
    /\ returned = FALSE
    /\ call_ret = <<>>

\* The units of the historical collection: <<month, region>>.
Units == (1..MaxMonths) \X (1..NumRegions)

\* Neither script runs.
ScriptsOff ==
    /\ api_call_count = 0
    /\ batch_pc = "off"
    /\ region_index = 0
    /\ call_count = 0
    /\ waited = 0
    /\ progress = {}
    /\ hist_pc = "off"
    /\ hist_at = 0
    /\ hist_runs = 0
    /\ fetched = {}
    /\ collected = [u \in Units |-> [calls |-> 0, when_done |-> 0]]

\* The scheduled transactions job does not run.
JobOff ==
    /\ job_pc = "off"
    /\ job_region = 0
    /\ db_session = "none"
    /\ job_batch = <<>>
    /\ name_cached = FALSE
    /\ job_saved = 0
    /\ job_created = 0
    /\ session_new = [g \in 1..NumRegions |-> 0]
    /\ persisted = [g \in 1..NumRegions |-> 0]
    /\ failed_regions = {}
    /\ lost_rows = [g \in 1..NumRegions |-> 0]

\* The parts of the model that the fetch, batch and transactions
\* specifications do not use.
RestOff ==
    /\ CrawlOff
    /\ PagesOff
    /\ SchedOff
    /\ IngestOff
    /\ CallOff
    /\ CompareOff
    /\ ScriptsOff
    /\ JobOff

\* ------------------------------------------------------------------------
\* SpecFetch
\* ------------------------------------------------------------------------
\* The per-caller part of the initial state: n callers are active.
CallersInit(n) ==
    /\ cpc = [c \in Callers |-> IF c <= n THEN "idle" ELSE "off"]
    /\ attempt = [c \in Callers |-> 1]
    /\ timer = [c \in Callers |-> 0]
    /\ gets = [c \in Callers |-> 0]
    /\ sleeps = [c \in Callers |-> 0]
    /\ lastResp = [c \in Callers |-> NoResp]
    /\ result = [c \in Callers |-> "pending"]
    /\ calls = [c \in Callers |-> 0]
    /\ sinceLast = Delay(kind)
    /\ lastGap = Delay(kind)

\* A client of any of the three kinds, used by one job that awaits each call
\* before it makes the next.
FetchInit ==
    /\ kind \in Kinds
    /\ CallersInit(1)
    /\ KbOff
    /\ TxOff
    /\ RestOff

\* The KBPriceClient of a KBPriceService in update_kb_prices_parallel: every
\* group task past the semaphore calls the one self._client.
SharedInit ==
    /\ kind = "kb"
    /\ \E n \in 1..MaxCallers : CallersInit(n)
    /\ KbOff
    /\ TxOff
    /\ RestOff

\* The clock and the callers are not part of the specification.
FetchOff ==
    /\ kind = "kb"
    /\ CallersInit(0)

\* A public client method: await self._throttle()
CallStart(c) ==
    /\ cpc[c] = "idle"
    /\ calls[c] < MaxCalls
    /\ cpc' = [cpc EXCEPT ![c] = "throttle"]
    /\ timer' = [timer EXCEPT ![c] = Delay(kind)]
    /\ attempt' = [attempt EXCEPT ![c] = 1]
    /\ gets' = [gets EXCEPT ![c] = 0]
    /\ sleeps' = [sleeps EXCEPT ![c] = 0]
    /\ lastResp' = [lastResp EXCEPT ![c] = NoResp]
    /\ result' = [result EXCEPT ![c] = "pending"]
    /\ UNCHANGED <<notFetch, kind, calls, sinceLast, lastGap>>

\* The throttle sleep is over: the retry loop starts, client.get is issued.
FirstGet(c) ==
    /\ cpc[c] = "throttle"
    /\ timer[c] = 0
    /\ cpc' = [cpc EXCEPT ![c] = "await"]
    /\ gets' = [gets EXCEPT ![c] = @ + 1]
    /\ lastGap' = sinceLast
    /\ sinceLast' = 0
    /\ UNCHANGED <<notFetch, kind, attempt, timer, sleeps, lastResp, result, calls>>

\* client.get returns or raises; the rest of the loop body runs.
Receive(c) ==
    /\ cpc[c] = "await"
    /\ \E r \in Responses(kind) :
          LET h == Handle(r, attempt[c]) IN
          /\ lastResp' = [lastResp EXCEPT ![c] = r]
          /\ CASE h = "return" ->
                    /\ result' = [result EXCEPT ![c] = OkResult(kind, r)]
                    /\ cpc' = [cpc EXCEPT ![c] = "idle"]
                    /\ calls' = [calls EXCEPT ![c] = @ + 1]
                    /\ UNCHANGED <<timer, sleeps>>
               [] h = "raise" ->
                    /\ result' = [result EXCEPT ![c] = "raised"]
                    /\ cpc' = [cpc EXCEPT ![c] = "idle"]
                    /\ calls' = [calls EXCEPT ![c] = @ + 1]
                    /\ UNCHANGED <<timer, sleeps>>
               [] h \in {"deny", "fall"} ->
                    /\ result' = [result EXCEPT ![c] = "None"]
                    /\ cpc' = [cpc EXCEPT ![c] = "idle"]
                    /\ calls' = [calls EXCEPT ![c] = @ + 1]
                    /\ UNCHANGED <<timer, sleeps>>
               [] h = "sleep429" ->
                    /\ timer' = [timer EXCEPT ![c] = RateLimitWait(attempt[c])]
                    /\ sleeps' = [sleeps EXCEPT ![c] = @ + 1]
                    /\ cpc' = [cpc EXCEPT ![c] = "backoff"]
                    /\ UNCHANGED <<result, calls>>
               [] OTHER ->
                    /\ timer' = [timer EXCEPT ![c] = BackoffWait(attempt[c])]
                    /\ sleeps' = [sleeps EXCEPT ![c] = @ + 1]
                    /\ cpc' = [cpc EXCEPT ![c] = "backoff"]
                    /\ UNCHANGED <<result, calls>>
    /\ UNCHANGED <<notFetch, kind, attempt, gets, sinceLast, lastGap>>

\* The backoff sleep is over and the loop has another iteration.
Retry(c) ==
    /\ cpc[c] = "backoff"
    /\ timer[c] = 0
    /\ LoopContinues(attempt[c])
    /\ attempt' = [attempt EXCEPT ![c] = @ + 1]
    /\ cpc' = [cpc EXCEPT ![c] = "await"]
    /\ gets' = [gets EXCEPT ![c] = @ + 1]
    /\ lastGap' = sinceLast
    /\ sinceLast' = 0
    /\ UNCHANGED <<notFetch, kind, timer, sleeps, lastResp, result, calls>>

\* The backoff sleep is over and the loop is exhausted: return None.
GiveUp(c) ==
    /\ cpc[c] = "backoff"
    /\ timer[c] = 0
    /\ ~LoopContinues(attempt[c])
    /\ result' = [result EXCEPT ![c] = "None"]
    /\ cpc' = [cpc EXCEPT ![c] = "idle"]
    /\ calls' = [calls EXCEPT ![c] = @ + 1]
    /\ UNCHANGED <<notFetch, kind, attempt, timer, gets, sleeps, lastResp, sinceLast, lastGap>>

\* Half a second passes.  asyncio.sleep(d) resumes the caller no earlier
\* than d later, so a timer at 0 may stay there.
Tick ==
    /\ \/ \E c \in Callers : timer[c] > 0
       \/ sinceLast < Delay(kind)
    /\ timer' = [c \in Callers |-> IF timer[c] > 0 THEN timer[c] - 1 ELSE 0]
    /\ sinceLast' = Min(sinceLast + 1, Delay(kind))
    /\ UNCHANGED <<notFetch, kind, cpc, attempt, gets, sleeps, lastResp, result, calls, lastGap>>

FetchNext ==
    \/ \E c \in Callers : CallStart(c)
    \/ \E c \in Callers : FirstGet(c)
    \/ \E c \in Callers : Receive(c)
    \/ \E c \in Callers : Retry(c)
    \/ \E c \in Callers : GiveUp(c)
    \/ Tick

SpecFetch == FetchInit /\ [][FetchNext]_vars

SpecShared == SharedInit /\ [][FetchNext]_vars

\* ------------------------------------------------------------------------
\* Claims about the fetch
\* ------------------------------------------------------------------------
CallOver(c) == cpc[c] = "idle" /\ result[c] # "pending"

\* C1: whatever the HTTP outcomes, one call issues at most MAX_RETRIES GETs,
\* and once the last of them has failed the call is over with None (or is in
\* the sleep that precedes returning None): it never asks again.
C1_AtMostThreeGets ==
    \A c \in Callers :
        /\ gets[c] <= MAX_RETRIES
        /\ ( /\ gets[c] = MAX_RETRIES
             /\ cpc[c] # "await"
             /\ lastResp[c].status # "200" )
           => \/ CallOver(c) /\ result[c] = "None"
              \/ cpc[c] = "backoff" /\ lastResp[c].status = "429"

\* C1 witness: a call that failed three times and returned None.
C1_Witness ==
    \E c \in Callers :
        /\ CallOver(c) /\ result[c] = "None"
        /\ gets[c] = MAX_RETRIES
        /\ lastResp[c].status = "500"

\* C2: once an attempt has received 401 or 403 the call is over with None:
\* it is in no sleep, it awaits no GET, and it slept only between the
\* attempts that came before.
C2_DeniedFailsAtOnce ==
    \A c \in Callers :
        lastResp[c].status \in {"401", "403"}
            => /\ CallOver(c) /\ result[c] = "None"
               /\ timer[c] = 0
               /\ gets[c] = attempt[c]
               /\ sleeps[c] = gets[c] - 1

\* C2 witness: a 403 received by the second attempt ended the call.
C2_Witness ==
    \E c \in Callers :
        /\ lastResp[c].status = "403"
        /\ attempt[c] = 2
        /\ CallOver(c)

\* C4: an appraisal 200 whose resultCode signals a hard error makes the
\* call fail: the caller gets no payload.
C4_HardErrorFails ==
    \A c \in Callers :
        ( /\ kind = "kb"
          /\ CallOver(c)
          /\ lastResp[c].status = "200"
          /\ lastResp[c].code = "error" )
            => result[c] # "payload"

\* C5: whenever a GET is issued through a client, at least the client's
\* throttle delay has passed since the previous GET through it.
C5_MinGapBetweenGets == lastGap >= Delay(kind)

\* ------------------------------------------------------------------------
\* SpecKB: update_kb_prices_parallel and _process_dong_group
\* ------------------------------------------------------------------------
\* .filter(ApartmentComplex.dong_code.isnot(None)), without the filter
EligibleAll(c) == TRUE

\* .filter(ApartmentComplex.dong_code.isnot(None))
Eligible(c) == dong_code[c] # NULL

\* The elements of a set of complexes, in the order of the query result.
RECURSIVE SeqOf(_)
SeqOf(S) ==
    IF S = {} THEN <<>>
    ELSE LET lo == CHOOSE x \in S : \A y \in S : x <= y
         IN  <<lo>> \o SeqOf(S \ {lo})

\* dong_groups[c.dong_code].append(c) for every complex of the query
GroupBy(g) == SeqOf({c \in Complexes : Eligible(c) /\ dong_code[c] = g})

\* match_from_list(name, kb_list, dong): does the list hold a KB complex
\* for this complex.  The list is the set of names its records match.
MatchFromList(c, L) == c \in L

\* the semaphore lets a task in although its value is 0
CanAcquireAlways(v) == TRUE

\* async with semaphore: the task enters when the value is positive
CanAcquire(v) == v > 0

\* leaving the block keeps the semaphore's value
ReleaseLost(v) == v

\* async with semaphore: leaving the block, by return or by exception,
\* releases the semaphore
Release(v) == v + 1

\* The loop over the group's complexes from position i, run up to its next
\* await: complexes the list does not match are counted failed, the first
\* one it matches is awaited for in get_all_prices; past the last complex
\* the task returns.
RECURSIVE NextMatch(_, _, _)
NextMatch(grp, i, L) ==
    IF i > Len(grp) THEN i
    ELSE IF MatchFromList(grp[i], L) THEN i
    ELSE NextMatch(grp, i + 1, L)

Chain(grp, i, L) ==
    LET j == NextMatch(grp, i, L)
    IN  [pc |-> IF j > Len(grp) THEN "done" ELSE "prices",
         idx |-> j,
         skipped |-> {grp[k] : k \in i..(j - 1)},
         entered |-> {grp[k] : k \in i..Min(j, Len(grp))}]

\* after a complex the task asks for the complex list again
AfterComplexRefetch(grp, i, L) ==
    IF i + 1 > Len(grp) THEN Chain(grp, i + 1, L)
    ELSE [pc |-> "list", idx |-> i + 1, skipped |-> {}, entered |-> {}]

\* What the task does once the iteration of the complex at position i is
\* over: the next iteration, with the kb_list it has.
AfterComplex(grp, i, L) == Chain(grp, i + 1, L)

\* db.commit() that persists nothing and leaves the rows pending
CommitSkipped(s) == s

\* db.commit()
Commit(s) == [s EXCEPT !.committed = s.committed \cup s.pending, !.pending = {}]

\* db.rollback()
Rollback(s) == [s EXCEPT !.pending = {}]

\* _upsert_kb_prices(db, complex_id, prices) for the first k of the prices:
\* a row per area, added or updated in the session.
Upsert(s, c, k) == [s EXCEPT !.pending = s.pending \cup {<<c, a>> : a \in 1..k}]

Owners(rows) == {r[1] : r \in rows}

InFlight == {g \in Keys : gpc[g] \in {"list", "prices"}}

\* What get_all_prices and the store can do for one complex:
\*   raise   - get_all_prices raises
\*   n = 0   - no prices
\*   fail    - "none"; "upsert": _upsert_kb_prices raises after k rows;
\*             "commit": db.commit() raises
PriceOutcomes ==
    [kind : {"raise"}, n : {0}, fail : {"none"}, k : {0}]
    \cup [kind : {"prices"}, n : {0}, fail : {"none"}, k : {0}]
    \cup {o \in [kind : {"prices"}, n : Areas, fail : {"none", "upsert", "commit"},
                 k : 0..MaxAreas] :
            IF o.fail = "upsert" THEN o.k < o.n ELSE o.k = o.n}

\* The codes are names without order: it is enough to take the stores in
\* which code d + 1 first appears after code d (every other store is one of
\* these with its codes renamed).
CodesInOrder(dc) ==
    \A c \in Complexes :
        dc[c] # NULL =>
            \A d \in DongCodes : d < dc[c] => \E b \in 1..(c - 1) : dc[b] = d

KbInit ==
    /\ dong_code \in {dc \in [Complexes -> Keys] : CodesInOrder(dc)}
    /\ concurrency \in 1..MaxConcurrency
    /\ KbFresh
    /\ FetchOff
    /\ TxOff
    /\ RestOff

\* update_kb_prices_parallel up to the gather: open the session, query the
\* eligible complexes, group them, make one task per group.
KbPlan ==
    /\ phase = "init"
    /\ LET groups == [g \in Keys |-> GroupBy(g)]
           keys == {g \in Keys : groups[g] # <<>>}
       IN  /\ db' = [db EXCEPT !.id = 1]
           /\ dong_groups' = groups
           /\ IF keys = {}
              THEN /\ phase' = "done"
                   /\ UNCHANGED <<sem, gpc, sessionOf, total_stats>>
              ELSE /\ phase' = "running"
                   /\ sem' = concurrency
                   /\ gpc' = [g \in Keys |-> IF g \in keys THEN "gate" ELSE "none"]
                   /\ sessionOf' = [g \in Keys |-> IF g \in keys THEN 1 ELSE 0]
                   /\ total_stats' =
                        [total_stats EXCEPT
                           !.total_complexes = Cardinality({c \in Complexes : Eligible(c)}),
                           !.dong_groups = Cardinality(keys)]
    /\ UNCHANGED <<dong_code, concurrency, idx, kb_list, listCalls, httpUsed,
                   usedList, handled, stats, lastCommit, lastRollback, notKb>>

\* async with semaphore, then the call of get_complex_list(dong_code)
KbAcquire(g) ==
    /\ phase = "running"
    /\ gpc[g] = "gate"
    /\ CanAcquire(sem)
    /\ sem' = sem - 1
    /\ gpc' = [gpc EXCEPT ![g] = "list"]
    /\ listCalls' = [listCalls EXCEPT ![g] = @ + 1]
    /\ UNCHANGED <<dong_code, phase, concurrency, dong_groups, idx, kb_list,
                   httpUsed, sessionOf, usedList, handled, stats, db,
                   lastCommit, lastRollback, total_stats, notKb>>

\* The effect of running the loop from position i with list L on the task
\* g, with fails more complexes counted failed on the way.
KbGoOn(g, nxt, L, st) ==
    /\ gpc' = [gpc EXCEPT ![g] = nxt.pc]
    /\ idx' = [idx EXCEPT ![g] = nxt.idx]
    /\ stats' = [stats EXCEPT ![g] =
                    [st EXCEPT !.failed = @ + Cardinality(nxt.skipped)]]
    /\ handled' = [c \in Complexes |->
                     IF c \in nxt.entered THEN handled[c] + 1 ELSE handled[c]]
    /\ usedList' = [c \in Complexes |->
                     IF c \in nxt.entered THEN L ELSE usedList[c]]
    /\ listCalls' = [listCalls EXCEPT ![g] = IF nxt.pc = "list" THEN @ + 1 ELSE @]
    /\ sem' = IF nxt.pc = "done" THEN Release(sem) ELSE sem

\* get_complex_list returns or raises.
KbListReturn(g) ==
    /\ phase = "running"
    /\ gpc[g] = "list"
    /\ httpUsed' = [httpUsed EXCEPT ![g] = TRUE]
    /\ \E raised \in BOOLEAN, L \in SUBSET ({c \in Complexes : dong_code[c] = g} \cup {OtherKb}) :
          /\ raised => L = {}
          /\ kb_list' = [kb_list EXCEPT ![g] = L]
          /\ IF L = {}
             THEN \* stats["failed"] = len(complexes); return stats
                  /\ gpc' = [gpc EXCEPT ![g] = "done"]
                  /\ stats' = [stats EXCEPT ![g].failed = Len(dong_groups[g])]
                  /\ handled' = [c \in Complexes |->
                                   IF \E k \in idx[g]..Len(dong_groups[g]) : dong_groups[g][k] = c
                                   THEN handled[c] + 1 ELSE handled[c]]
                  /\ sem' = Release(sem)
                  /\ UNCHANGED <<idx, usedList, listCalls>>
             ELSE KbGoOn(g, Chain(dong_groups[g], idx[g], L), L, stats[g])
    /\ UNCHANGED <<dong_code, phase, concurrency, dong_groups, sessionOf, db,
                   lastCommit, lastRollback, total_stats, notKb>>

\* get_all_prices returns or raises for the complex the task waits for; the
\* upsert, the commit or the rollback follow, and the loop goes on.
KbPricesReturn(g) ==
    /\ phase = "running"
    /\ gpc[g] = "prices"
    /\ httpUsed' = [httpUsed EXCEPT ![g] = TRUE]
    /\ LET grp == dong_groups[g]
           c == grp[idx[g]]
           nxt == AfterComplex(grp, idx[g], kb_list[g])
       IN  \E o \in PriceOutcomes :
              CASE o.kind = "raise" \/ o.fail # "none" ->
                     \* except Exception: db.rollback(); stats["failed"] += 1
                     LET s1 == Upsert(db, c, o.k) IN
                     /\ lastRollback' = [by |-> c, owners |-> Owners(s1.pending)]
                     /\ db' = Rollback(s1)
                     /\ KbGoOn(g, nxt, kb_list[g],
                               [stats[g] EXCEPT !.failed = @ + 1])
                     /\ UNCHANGED lastCommit
                [] o.n = 0 ->
                     \* no prices: stats["failed"] += 1
                     /\ KbGoOn(g, nxt, kb_list[g],
                               [stats[g] EXCEPT !.failed = @ + 1])
                     /\ UNCHANGED <<db, lastCommit, lastRollback>>
                [] OTHER ->
                     \* saved = _upsert_kb_prices(...); db.commit()
                     LET s1 == Upsert(db, c, o.n) IN
                     /\ lastCommit' = [by |-> c, owners |-> Owners(s1.pending)]
                     /\ db' = Commit(s1)
                     /\ KbGoOn(g, nxt, kb_list[g],
                               [stats[g] EXCEPT !.matched = @ + 1, !.saved = @ + o.n])
                     /\ UNCHANGED lastRollback
    /\ UNCHANGED <<dong_code, phase, concurrency, dong_groups, kb_list,
                   sessionOf, total_stats, notKb>>

\* asyncio.gather is over: the statistics are added up, the session closed.
RECURSIVE SumOver(_, _)
SumOver(S, f) ==
    IF S = {} THEN 0
    ELSE LET x == CHOOSE y \in S : TRUE IN f[x] + SumOver(S \ {x}, f)

KbGather ==
    /\ phase = "running"
    /\ \A g \in Keys : gpc[g] \in {"none", "done"}
    /\ phase' = "done"
    /\ total_stats' =
          [total_stats EXCEPT
             !.matched = SumOver(Keys, [g \in Keys |-> stats[g].matched]),
             !.saved = SumOver(Keys, [g \in Keys |-> stats[g].saved]),
             !.failed = SumOver(Keys, [g \in Keys |-> stats[g].failed])]
    /\ UNCHANGED <<dong_code, concurrency, sem, dong_groups, gpc, idx, kb_list,
                   listCalls, httpUsed, sessionOf, usedList, handled, stats, db,
                   lastCommit, lastRollback, notKb>>

KbNext ==
    \/ KbPlan
    \/ \E g \in Keys : KbAcquire(g)
    \/ \E g \in Keys : KbListReturn(g)
    \/ \E g \in Keys : KbPricesReturn(g)
    \/ KbGather

SpecKB == KbInit /\ [][KbNext]_vars

\* The event loop runs every task that can run: a task waiting at the
\* semaphore is woken when it is released, and every client call ends (the
\* retry loop is bounded and every GET has a timeout).
SpecKBFair == SpecKB /\ WF_vars(KbNext)

\* ------------------------------------------------------------------------
\* Claims about the parallel KB batch
\* ------------------------------------------------------------------------
PastGate(g) == gpc[g] \in {"list", "prices", "done"}

\* positions of complex c in the groups
PlacesOf(c) ==
    {p \in Keys \X (1..NumComplexes) :
        p[2] <= Len(dong_groups[p[1]]) /\ dong_groups[p[1]][p[2]] = c}

\* C6: a group task calls get_complex_list once, however many complexes the
\* group has, and every complex of the group that the loop reached was
\* matched against the list that call returned.
C6_ListOncePerGroup ==
    /\ \A g \in Keys :
          /\ listCalls[g] <= 1
          /\ PastGate(g) => listCalls[g] = 1
    /\ \A c \in Complexes :
          usedList[c] # {} => usedList[c] = kb_list[dong_code[c]]

\* C6 witness: a finished group of two complexes, both matched against the
\* list of the group's single call.
C6_Witness ==
    \E g \in Keys :
        /\ gpc[g] = "done"
        /\ Len(dong_groups[g]) >= 2
        /\ listCalls[g] = 1
        /\ \A k \in 1..Len(dong_groups[g]) : usedList[dong_groups[g][k]] = kb_list[g]
        /\ stats[g].matched >= 2

\* C7: never more than `concurrency` group tasks are past the semaphore and
\* unfinished, the semaphore's value is what they leave of it, and a task
\* that has called the client is past the gate.
C7_AtMostNInFlight ==
    phase # "init" =>
        /\ Cardinality(InFlight) <= concurrency
        /\ (\E g \in Keys : gpc[g] # "none")
              => sem = concurrency - Cardinality(InFlight)
        /\ \A g \in Keys : (httpUsed[g] \/ listCalls[g] > 0) => PastGate(g)

\* C7 witness: the gate is full, one task waits before it, and a task past
\* it has had a client call answered.
C7_Witness ==
    /\ phase = "running"
    /\ Cardinality(InFlight) = concurrency
    /\ \E g \in Keys : gpc[g] = "gate" /\ ~httpUsed[g]
    /\ \E g \in InFlight : httpUsed[g]

\* C8: two group tasks in flight at the same time never use the same session.
C8_SessionPerTask ==
    \A g1 \in InFlight : \A g2 \in InFlight :
        g1 # g2 => sessionOf[g1] # sessionOf[g2]

\* C9: a commit persists rows of the one complex whose iteration commits, a
\* rollback discards rows of no complex but the one whose iteration failed,
\* and no row is pending while any task is suspended.
C9_CommitPerComplex ==
    /\ lastCommit.by # 0 => lastCommit.owners = {lastCommit.by}
    /\ lastRollback.by # 0 => lastRollback.owners \subseteq {lastRollback.by}
    /\ db.pending = {}

\* C9 witness: while a task is in flight the failure of one complex has
\* discarded its rows, and rows of another complex, of the other group, are
\* committed.
C9_Witness ==
    /\ InFlight # {}
    /\ lastRollback.by # 0
    /\ lastRollback.owners = {lastRollback.by}
    /\ lastCommit.by # 0
    /\ dong_code[lastCommit.by] # dong_code[lastRollback.by]
    /\ \E r \in db.committed : r[1] = lastCommit.by

\* C10: after the grouping every complex with a dong_code sits at exactly
\* one position of exactly one group and every other complex at none; no
\* complex is counted twice, two tasks are never at the same complex, and
\* when the run is over the complexes counted once are those with a
\* dong_code.
C10_OncePerRun ==
    phase # "init" =>
        /\ \A c \in Complexes :
              /\ Cardinality(PlacesOf(c)) = IF dong_code[c] # NULL THEN 1 ELSE 0
              /\ handled[c] <= 1
              /\ phase = "done" => handled[c] = IF dong_code[c] # NULL THEN 1 ELSE 0
        /\ \A g1 \in Keys : \A g2 \in Keys :
              (g1 # g2 /\ gpc[g1] = "prices" /\ gpc[g2] = "prices")
                  => dong_groups[g1][idx[g1]] # dong_groups[g2][idx[g2]]

\* C10 witness: a finished run over a store with a complex without
\* dong_code and a group of two complexes, both with prices saved.
C10_Witness ==
    /\ phase = "done"
    /\ \E c \in Complexes : dong_code[c] = NULL /\ handled[c] = 0
    /\ \E g \in Keys : Len(dong_groups[g]) = 2 /\ stats[g].matched = 2

\* ------------------------------------------------------------------------
\* SpecTx: run_real_transaction_job, collect_and_save, fetch_all_transactions
\* ------------------------------------------------------------------------
\* One call of _request / _request_raw from attempt a on, given the outcome
\* rs[i] of every attempt i: what it returns, whether a 401/403 ended it,
\* and how many GETs it issued.
RECURSIVE RunRequest(_, _, _)
RunRequest(k, rs, a) ==
    LET h == Handle(rs[a], a)
        none == [result |-> "None", denied |-> FALSE, gets |-> a]
    IN  CASE h = "return" -> [none EXCEPT !.result = OkResult(k, rs[a])]
          [] h = "raise" -> [none EXCEPT !.result = "raised"]
          [] h = "deny" -> [none EXCEPT !.denied = TRUE]
          [] h = "fall" -> none
          [] OTHER -> IF LoopContinues(a) THEN RunRequest(k, rs, a + 1) ELSE none

\* What a 200 of the transactions source can hold: a body the XML parser
\* rejects, or n <item>s, kept of which normalize to a record, and a
\* totalCount.
Pages ==
    [bad : {TRUE}, n : {0}, kept : {0}, total : {0}]
    \cup {pg \in [bad : {FALSE},
                  n : {0, 1, DEFAULT_NUM_OF_ROWS},
                  kept : {0, 1, DEFAULT_NUM_OF_ROWS},
                  total : {0, 1, DEFAULT_NUM_OF_ROWS, DEFAULT_NUM_OF_ROWS + 1}] :
            pg.kept \in {0, pg.n}}

\* fetch_all_transactions after page pg of the while loop: does it break
LastPage(pg, page) ==
    \/ pg.bad
    \/ page * DEFAULT_NUM_OF_ROWS >= pg.total
    \/ pg.n = 0

TxInit ==
    /\ TxIdle
    /\ this_month \in Months
    /\ FetchOff
    /\ KbOff
    /\ RestOff

\* run_real_transaction_job: deal_ymd = start_time.strftime("%Y%m"),
\* db = SessionLocal(), the loop starts
TxStart ==
    /\ tx_phase = "idle"
    /\ tx_phase' = "running"
    /\ deal_ymd' = Strftime_Ym(this_month)
    /\ UNCHANGED <<region, page_no, all_results, results, denied,
                   getAfterDenied, this_month, asked, notTx>>

\* One turn of the while loop of fetch_all_transactions for the region the
\* job is at: throttle, _request_raw, parse, add, break or go on.  When the
\* loop breaks, collect_and_save returns the region's stats, the job appends
\* them to results and moves to the next region, or returns after the last.
TxFetchPage ==
    /\ tx_phase = "running"
    /\ \E rs \in [1..MAX_RETRIES -> Responses("rt")], pg \in Pages :
          LET r == RunRequest("rt", rs, 1)
              got == IF r.result = "payload" /\ ~pg.bad THEN pg.kept ELSE 0
              stop == r.result # "payload" \/ LastPage(pg, page_no)
          IN  /\ denied' = (denied \/ r.denied)
              /\ getAfterDenied' = (getAfterDenied \/ denied)
              /\ asked' = asked \cup {<<region, deal_ymd>>}
              /\ IF stop
                 THEN /\ results' = Append(results, all_results + got)
                      /\ all_results' = 0
                      /\ page_no' = 1
                      /\ region' = region + 1
                      /\ tx_phase' = IF region = NumRegions THEN "returned" ELSE "running"
                 ELSE /\ all_results' = all_results + got
                      /\ page_no' = page_no + 1
                      /\ UNCHANGED <<results, region, tx_phase>>
    /\ UNCHANGED <<this_month, deal_ymd, notTx>>

TxNext ==
    \/ TxStart
    \/ TxFetchPage

SpecTx == TxInit /\ [][TxNext]_vars

\* C3: when a source has answered 401 or 403 to a call of a job, the job
\* ends failed: it issues no further GET for a next unit of work and does
\* not return as if the call had found nothing.
C3_DeniedFailsJob ==
    /\ ~getAfterDenied
    /\ denied => tx_phase # "returned"

\* C19: a run of the scheduled transactions job asks, for every configured
\* region, for the transactions of the calendar month it runs in and of the
\* month before.
C19_BothMonthsAsked ==
    LET prev == IF this_month.m = 1
                THEN [y |-> this_month.y - 1, m |-> 12]
                ELSE [y |-> this_month.y, m |-> this_month.m - 1]
    IN  tx_phase = "returned" =>
            \A r \in 1..NumRegions :
                /\ <<r, Strftime_Ym(this_month)>> \in asked
                /\ <<r, Strftime_Ym(prev)>> \in asked

\* ------------------------------------------------------------------------
\* SpecCrawl: crawl_region and crawl_region_incremental of NaverCrawler
\* ------------------------------------------------------------------------
\* The articles the source shows under a complex, and the dealCnt it
\* reports for it.
SourceArticles(sn, c) == {a \in Articles : OwnerOf(a) = c /\ sn[a] # "absent"}
DealCnt(sn, c) == Cardinality(SourceArticles(sn, c))

\* _get_complexes_in_dong of a dong whose list the source puts on one page
ComplexesInDong(d) == SeqOf({c \in Listed : DongOf(c) = d})

\* How a call of the client made by the crawler can end: the payload, None
\* (retries exhausted, access denied), or an exception _request lets through.
CallOutcomes == {"ok", "none", "raise"}

\* _get_all_articles_for_complex: it raises, or returns the articles of the
\* pages it was given before a page came back empty or None.
ArticleOutcomes(sn, c) ==
    {[raised |-> TRUE, ids |-> {}]}
    \cup {[raised |-> FALSE, ids |-> g] : g \in SUBSET SourceArticles(sn, c)}

\* db.commit(): it succeeds or raises.
CommitOutcomes == {"ok", "fail"}

\* _upsert_complex
UpsertComplex(se, c) == [se EXCEPT !.complexes = @ \cup {c}]

\* _upsert_listing of an article: None when the price or the area does not
\* parse; else the existing row gets the price and is_active = True, or a new
\* row is added.
UpsertListing(row, art) ==
    IF art = "bad" THEN row ELSE [price |-> art, active |-> TRUE]

\* _deactivate_missing_listings
DeactivateMissing(se, c, active_ids) ==
    [se EXCEPT !.listings =
        [a \in Articles |->
            IF /\ OwnerOf(a) = c
               /\ se.listings[a] # NoRow
               /\ se.listings[a].active
               /\ a \notin active_ids
            THEN [se.listings[a] EXCEPT !.active = FALSE]
            ELSE se.listings[a]]]

\* crawl_complex when the article fetch returned the articles ids
CrawlComplex(se, sn, c, ids) ==
    LET s1 == UpsertComplex(se, c)
        s2 == [s1 EXCEPT !.listings =
                  [a \in Articles |->
                      IF a \in ids THEN UpsertListing(s1.listings[a], sn[a])
                      ELSE s1.listings[a]]]
    IN  DeactivateMissing(s2, c, ids)

\* crawl_complex as its caller sees it: the exception of the article fetch
\* is caught by the caller, after the complex was upserted.
AfterCrawlComplex(se, sn, c, out) ==
    IF out.raised THEN UpsertComplex(se, c)
    ELSE CrawlComplex(se, sn, c, out.ids)

\* the session rolls back although the crawl failed: it keeps its writes
SessionRollbackKeeps(st, se) == se

\* db.rollback(): the session is back at the committed rows
SessionRollback(st, se) == st

\* the bulk statement leaves the listings as they are
BulkDeactivateNothing(se, nos) == se

\* _bulk_deactivate_listings
BulkDeactivate(se, nos) ==
    LET complex_ids == nos \cap se.complexes
    IN  [se EXCEPT !.listings =
            [a \in Articles |->
                IF /\ OwnerOf(a) \in complex_ids
                   /\ se.listings[a] # NoRow
                   /\ se.listings[a].active
                THEN [se.listings[a] EXCEPT !.active = FALSE]
                ELSE se.listings[a]]]

\* _get_active_listing_counts, read with db_counts.get(cno, -1)
DbCount(se, c) ==
    IF c \in se.complexes
    THEN Cardinality({a \in Articles : /\ OwnerOf(a) = c
                                       /\ se.listings[a] # NoRow
                                       /\ se.listings[a].active})
    ELSE -1

\* every complex counts as one without deals
IsZeroDealAlways(cnt) == TRUE

\* cnt == 0
IsZeroDeal(cnt) == cnt = 0

\* a complex is skipped when the counts differ
SameCountInverted(api_deal_cnt, db_active_cnt) == api_deal_cnt # db_active_cnt

\* api_deal_cnt == db_active_cnt
SameCount(api_deal_cnt, db_active_cnt) == api_deal_cnt = db_active_cnt

\* zero_deal_nos, nonzero_nos and crawl_targets of a phase 1 result
ZeroDealNos(sn, cs) == {c \in cs : IsZeroDeal(DealCnt(sn, c))}
NonzeroNos(sn, cs) == {c \in cs : DealCnt(sn, c) > 0}
CrawlTargets(se, sn, cs) ==
    {c \in NonzeroNos(sn, cs) : ~SameCount(DealCnt(sn, c), DbCount(se, c))}

\* The set of the elements of a sequence.
Range(q) == {q[i] : i \in 1..Len(q)}

CrawlInit ==
    /\ CrawlOff
    /\ FetchOff
    /\ KbOff
    /\ TxOff
    /\ PagesOff
    /\ SchedOff
    /\ IngestOff
    /\ CallOff
    /\ CompareOff
    /\ ScriptsOff
    /\ JobOff

\* A crawl goes on to its next await with the session rows se.
CrawlGoesOn(se, pc2, i2, q2) ==
    /\ sess' = se
    /\ crawl_pc' = pc2
    /\ dong_i' = i2
    /\ queue' = q2
    /\ UNCHANGED <<store, commits, crawl_out, dropped, sinceFull>>

\* A crawl ends: after db.commit() (committed) or without it, returning its
\* stats or raising; an exception inside the try block rolls the session
\* back, and finally the session is closed.  cl tells whether every source
\* call of the crawl was answered whole.
CrawlEnds(se, committed, how, cl) ==
    /\ store' = IF committed THEN se ELSE store
    /\ sess' = IF committed THEN se
               ELSE IF how = "raised" THEN SessionRollback(store, se)
               ELSE store
    /\ commits' = IF committed THEN commits + 1 ELSE commits
    /\ crawl_out' = how
    /\ dropped' = (~committed /\ se # store)
    /\ sinceFull' = IF ~committed THEN sinceFull
                    ELSE IF crawl_mode = "full" THEN cl
                    ELSE sinceFull /\ cl
    /\ crawl_pc' = "idle"
    /\ queue' = <<>>
    /\ UNCHANGED dong_i

\* A crawl reaches db.commit(): the commit succeeds, and the crawl ends as
\* how says, or it raises.
CrawlCommits(se, how, cl) ==
    \E co \in CommitOutcomes :
        CrawlEnds(se, co = "ok", IF co = "ok" THEN how ELSE "raised", cl)

\* What a crawl resets when it starts.
CrawlStarts(mode) ==
    /\ crawl_mode' = mode
    /\ base' = store
    /\ afterBulk' = store
    /\ all_complexes' = <<>>
    /\ asked_articles' = {}
    /\ skipped_same' = 0
    /\ crawl_targets' = <<>>
    /\ lastCx' = 0
    /\ lastIds' = {}

\* crawl_region up to its first _get_complexes_in_dong: _find_sigungu_code
\* and _get_dong_list, which return a value, return nothing or raise; then
\* db = SessionLocal().  crawl_region_incremental starts the same way, without
\* a session.
CrawlBegin(mode) ==
    /\ crawl_pc = "idle"
    /\ CrawlStarts(mode)
    /\ \E o \in CallOutcomes :
          /\ clean' = (o = "ok")
          /\ commits' = 0
          /\ dong_i' = 1
          /\ queue' = <<>>
          /\ sess' = store
          /\ dropped' = FALSE
          /\ crawl_out' = CASE o = "ok" -> "-"
                            [] o = "none" -> "returned"
                            [] OTHER -> "raised"
          /\ crawl_pc' = IF o # "ok" THEN "idle"
                         ELSE IF mode = "full" THEN "dongs" ELSE "phase1"

\* crawl_region is called
CrawlRegionBegin ==
    /\ CrawlBegin("full")
    /\ UNCHANGED <<snap, store, sinceFull, notCrawl>>

\* crawl_region_incremental is called
IncrementalBegin ==
    /\ CrawlBegin("incr")
    /\ UNCHANGED <<snap, store, sinceFull, notCrawl>>

\* Between two crawls the source changes in one article: an article is
\* listed, withdrawn, repriced, or its price or area text no longer parses.
\* What the model recorded of the crawl before is dropped; the stored rows
\* stay.
SourceChange ==
    /\ crawl_pc = "idle"
    /\ \E sn \in Snaps :
          /\ Cardinality({a \in Articles : sn[a] # snap[a]}) = 1
          /\ snap' = sn
    /\ sinceFull' = FALSE
    /\ sess' = store
    /\ base' = store
    /\ afterBulk' = store
    /\ crawl_mode' = "none"
    /\ crawl_pc' = "idle"
    /\ dong_i' = 1
    /\ all_complexes' = <<>>
    /\ queue' = <<>>
    /\ asked_articles' = {}
    /\ skipped_same' = 0
    /\ crawl_targets' = <<>>
    /\ commits' = 0
    /\ crawl_out' = "-"
    /\ dropped' = FALSE
    /\ lastCx' = 0
    /\ lastIds' = {}
    /\ clean' = TRUE
    /\ UNCHANGED <<store, notCrawl>>

\* crawl_region: _get_complexes_in_dong of the next dong.  An exception
\* leaves the loop: rollback, raise.  Without complexes the loop continues;
\* after the last dong comes db.commit().
CrawlRegionDong ==
    /\ crawl_pc = "dongs"
    /\ \E o \in CallOutcomes :
          LET complexes == IF o = "ok" THEN ComplexesInDong(DongList[dong_i])
                           ELSE <<>>
              cl == clean /\ o = "ok"
          IN  /\ clean' = cl
              /\ IF o = "raise"
                 THEN CrawlEnds(sess, FALSE, "raised", cl)
                 ELSE IF complexes # <<>>
                 THEN CrawlGoesOn(sess, "complexes", dong_i, complexes)
                 ELSE IF dong_i < Len(DongList)
                 THEN CrawlGoesOn(sess, "dongs", dong_i + 1, <<>>)
                 ELSE CrawlCommits(sess, "returned", cl)
    /\ UNCHANGED <<snap, base, crawl_mode, all_complexes, asked_articles,
                   skipped_same, crawl_targets, afterBulk, lastCx, lastIds,
                   notCrawl>>

\* crawl_region: crawl_complex of the next complex of the dong, its
\* exception caught; after the last complex of the last dong, db.commit().
CrawlRegionComplex ==
    /\ crawl_pc = "complexes"
    /\ \E out \in ArticleOutcomes(snap, Head(queue)) :
          LET c == Head(queue)
              se == AfterCrawlComplex(sess, snap, c, out)
              cl == clean /\ ~out.raised /\ out.ids = SourceArticles(snap, c)
          IN  /\ clean' = cl
              /\ asked_articles' = asked_articles \cup {c}
              /\ lastCx' = IF out.raised THEN lastCx ELSE c
              /\ lastIds' = IF out.raised THEN lastIds ELSE out.ids
              /\ IF Tail(queue) # <<>>
                 THEN CrawlGoesOn(se, "complexes", dong_i, Tail(queue))
                 ELSE IF dong_i < Len(DongList)
                 THEN CrawlGoesOn(se, "dongs", dong_i + 1, <<>>)
                 ELSE CrawlCommits(se, "returned", cl)
    /\ UNCHANGED <<snap, base, crawl_mode, all_complexes, skipped_same,
                   crawl_targets, afterBulk, notCrawl>>

\* crawl_region_incremental, phase 1: _get_complexes_in_dong of the next
\* dong.  After the last dong, with complexes found: db = SessionLocal(),
\* phase 3 (bulk deactivation), phase 4 (counts, crawl_targets), and then
\* either the first crawl_complex is awaited or, without targets,
\* db.commit() and the log call that names the undefined skipped_small.
IncrementalDong ==
    /\ crawl_pc = "phase1"
    /\ \E o \in CallOutcomes :
          LET found == all_complexes \o
                           (IF o = "ok" THEN ComplexesInDong(DongList[dong_i])
                            ELSE <<>>)
              nos == Range(found)
              se == BulkDeactivate(sess, ZeroDealNos(snap, nos))
              targets == SeqOf(CrawlTargets(se, snap, nos))
              cl == clean /\ o = "ok"
          IN  /\ clean' = cl
              /\ IF o = "raise"
                 THEN /\ CrawlEnds(sess, FALSE, "raised", cl)
                      /\ UNCHANGED <<all_complexes, skipped_same,
                                     crawl_targets, afterBulk>>
                 ELSE IF dong_i < Len(DongList)
                 THEN /\ CrawlGoesOn(sess, "phase1", dong_i + 1, <<>>)
                      /\ all_complexes' = found
                      /\ UNCHANGED <<skipped_same, crawl_targets, afterBulk>>
                 ELSE IF found = <<>>
                 THEN /\ CrawlEnds(sess, FALSE, "returned", cl)
                      /\ all_complexes' = found
                      /\ UNCHANGED <<skipped_same, crawl_targets, afterBulk>>
                 ELSE /\ all_complexes' = found
                      /\ afterBulk' = se
                      /\ crawl_targets' = targets
                      /\ skipped_same' = Cardinality(NonzeroNos(snap, nos))
                                             - Len(targets)
                      /\ IF targets # <<>>
                         THEN CrawlGoesOn(se, "targets", dong_i, targets)
                         ELSE CrawlCommits(se, "raised", cl)
    /\ UNCHANGED <<snap, base, crawl_mode, asked_articles, lastCx, lastIds,
                   notCrawl>>

\* crawl_region_incremental: crawl_complex of the next target, its exception
\* caught; after the last target db.commit() and the log call that names the
\* undefined skipped_small.
IncrementalTarget ==
    /\ crawl_pc = "targets"
    /\ \E out \in ArticleOutcomes(snap, Head(queue)) :
          LET c == Head(queue)
              se == AfterCrawlComplex(sess, snap, c, out)
              cl == clean /\ ~out.raised /\ out.ids = SourceArticles(snap, c)
          IN  /\ clean' = cl
              /\ asked_articles' = asked_articles \cup {c}
              /\ lastCx' = IF out.raised THEN lastCx ELSE c
              /\ lastIds' = IF out.raised THEN lastIds ELSE out.ids
              /\ IF Tail(queue) # <<>>
                 THEN CrawlGoesOn(se, "targets", dong_i, Tail(queue))
                 ELSE CrawlCommits(se, "raised", cl)
    /\ UNCHANGED <<snap, base, crawl_mode, all_complexes, skipped_same,
                   crawl_targets, afterBulk, notCrawl>>

CrawlNext ==
    \/ SourceChange
    \/ CrawlRegionBegin
    \/ IncrementalBegin
    \/ CrawlRegionDong
    \/ CrawlRegionComplex
    \/ IncrementalDong
    \/ IncrementalTarget

SpecCrawl == CrawlInit /\ [][CrawlNext]_vars

\* ------------------------------------------------------------------------
\* SpecPages: _get_complexes_in_dong over get_complex_list_in_region
\* ------------------------------------------------------------------------
\* The complexes of page p when the source holds h complexes, numbered from
\* 1, and puts n of them on a page.
PageItems(h, n, p) ==
    LET first == (p - 1) * n
        len == IF h - first > n THEN n
               ELSE IF h - first > 0 THEN h - first ELSE 0
    IN  [i \in 1..len |-> first + i]

\* get_complex_list_in_region of a page that _request answered: the
\* complexes of the response and, as totalCount, their number.
GetComplexListInRegion(h, n, p) ==
    LET complexes == PageItems(h, n, p)
    IN  [complexList |-> complexes, totalCount |-> Len(complexes)]

PagesInit ==
    /\ held \in [1..NumDongs -> 0..MaxHeld]
    /\ per_page \in 1..MaxPerPage
    /\ page_dong = 0
    /\ dong_page = 1
    /\ got_complexes = <<>>
    /\ pages_pc = "idle"
    /\ FetchOff
    /\ KbOff
    /\ TxOff
    /\ CrawlOff
    /\ SchedOff
    /\ IngestOff
    /\ CallOff
    /\ CompareOff
    /\ ScriptsOff
    /\ JobOff

\* _get_complexes_in_dong(dong_code) is called: all_complexes = [], page = 1
GetComplexesInDong ==
    /\ pages_pc # "loop"
    /\ \E d \in 1..NumDongs : page_dong' = d
    /\ dong_page' = 1
    /\ got_complexes' = <<>>
    /\ pages_pc' = "loop"
    /\ UNCHANGED <<held, per_page, notPages>>

\* One pass of the while loop: the request of the page, answered or not,
\* and the three breaks.
PageRequest ==
    /\ pages_pc = "loop"
    /\ \E answered \in BOOLEAN :
          LET data == GetComplexListInRegion(held[page_dong], per_page,
                                             dong_page)
              all == got_complexes \o data.complexList
          IN  IF ~answered
              THEN /\ pages_pc' = "nodata"
                   /\ UNCHANGED <<dong_page, got_complexes>>
              ELSE IF data.complexList = <<>>
              THEN /\ pages_pc' = "returned"
                   /\ UNCHANGED <<dong_page, got_complexes>>
              ELSE /\ got_complexes' = all
                   /\ IF Len(all) >= data.totalCount
                      THEN /\ pages_pc' = "returned"
                           /\ UNCHANGED dong_page
                      ELSE /\ pages_pc' = "loop"
                           /\ dong_page' = dong_page + 1
    /\ UNCHANGED <<held, page_dong, per_page, notPages>>

PagesNext ==
    \/ GetComplexesInDong
    \/ PageRequest

SpecPages == PagesInit /\ [][PagesNext]_vars

\* C13: _get_complexes_in_dong, every request of it answered, returns every
\* complex the source holds for the dong, whatever the number of complexes
\* the source puts on one page.
C13_AllPagesCollected ==
    pages_pc = "returned" =>
        Range(got_complexes) = 1..held[page_dong]

\* ------------------------------------------------------------------------
\* SpecSched: start_scheduler, its three jobs, stop_scheduler
\* ------------------------------------------------------------------------
\* max_instances of every add_job
max_instances == 1

\* the scheduler starts an invocation whatever is running
MayStartAlways(n) == TRUE

\* The scheduler starts an invocation of a job of which n invocations are
\* running only below max_instances.
MayStart(n) == n < max_instances

\* _is_first_run: count == 0
IsFirstRun(count) == count = 0

\* The apartment_complex row counts an invocation of a job can leave behind:
\* a crawl upserts the complexes it finds, a transactions collection creates
\* a complex for a record it cannot match when the table takes the row, the
\* appraisal collection adds none.
RowsAfter(j, count) ==
    CASE j = "naver_compare_job" -> count..MaxRows
      [] j = "real_transaction_job" -> {count, Min(count + 1, MaxRows)}
      [] OTHER -> {count}

SchedInit ==
    /\ SchedOff
    /\ FetchOff
    /\ KbOff
    /\ TxOff
    /\ CrawlOff
    /\ PagesOff
    /\ IngestOff
    /\ CallOff
    /\ CompareOff
    /\ ScriptsOff
    /\ JobOff

\* start_scheduler, called once by the application's startup
StartScheduler ==
    /\ scheduler = "none"
    /\ scheduler' = "running"
    /\ UNCHANGED <<running, refused, complex_rows, first_run, modes,
                   notSched>>

\* stop_scheduler, called by the application's shutdown
StopScheduler ==
    /\ scheduler = "running"
    /\ scheduler' = "stopped"
    /\ UNCHANGED <<running, refused, complex_rows, first_run, modes,
                   notSched>>

\* The trigger of a job fires.  With an invocation of the job running the
\* scheduler skips the run; else the job function starts, and
\* run_naver_crawl_job reads _is_first_run and chooses its mode.
TriggerFires ==
    \E j \in Jobs :
        /\ scheduler = "running"
        /\ IF MayStart(running[j])
           THEN /\ running' = [running EXCEPT ![j] = @ + 1]
                /\ UNCHANGED refused
                /\ IF j = "naver_compare_job"
                   THEN /\ Len(modes) < MaxInvocations
                        /\ first_run' = IsFirstRun(complex_rows)
                        /\ modes' = Append(modes,
                                           IF IsFirstRun(complex_rows)
                                           THEN "full" ELSE "incr")
                   ELSE UNCHANGED <<first_run, modes>>
           ELSE /\ refused[j] < MaxInvocations
                /\ refused' = [refused EXCEPT ![j] = @ + 1]
                /\ UNCHANGED <<running, first_run, modes>>
        /\ UNCHANGED <<scheduler, complex_rows, notSched>>

\* An invocation of a job returns, its commits done.
JobReturns ==
    \E j \in Jobs :
        /\ running[j] > 0
        /\ running' = [running EXCEPT ![j] = @ - 1]
        /\ complex_rows' \in RowsAfter(j, complex_rows)
        /\ UNCHANGED <<scheduler, refused, first_run, modes, notSched>>

SchedNext ==
    \/ StartScheduler
    \/ StopScheduler
    \/ TriggerFires
    \/ JobReturns

SpecSched == SchedInit /\ [][SchedNext]_vars

\* C17: the first invocation of the listings crawl job runs the full crawl
\* and every later invocation the incremental crawl, whichever jobs ran
\* before and between them.
C17_FirstFullThenIncremental ==
    \A i \in 1..Len(modes) :
        modes[i] = IF i = 1 THEN "full" ELSE "incr"

\* C18: of each scheduled job at most one invocation is running at any time.
C18_OneInvocationPerJob ==
    \A j \in Jobs : running[j] <= 1

\* A trigger fired while the invocation before it of the same job was
\* running, and started nothing.
C18_Witness ==
    \E j \in Jobs : refused[j] > 0 /\ running[j] = 1

\* ------------------------------------------------------------------------
\* SpecIngest: save_transactions, run by processes that share the store
\* ------------------------------------------------------------------------
\* The transactions lists fetch_by_region hands to save_transactions.
Batches == UNION {[1..n -> Txs] : n \in 1..MaxBatch}

\* _is_duplicate against the rows its query sees: a floor that is None is
\* compared with IS NULL, every other field with ==.
IsDuplicate(rows, tx) ==
    \E t \in Txs :
        /\ rows[t] > 0
        /\ t.apt_name = tx.apt_name
        /\ t.deal_price = tx.deal_price
        /\ IF tx.floor # NULL THEN t.floor = tx.floor ELSE t.floor = NULL

\* match_cache and _match_complex of a run for an apt_name: is a complex
\* found, in the run's cache or session or among the committed rows
\* (cx of them created for the new name).
Matched(cx, own, apt_name) == apt_name = 1 \/ own \/ cx > 0

\* db.flush() of _create_complex, which inserts a row without
\* naver_complex_no: the table takes it, or the NOT NULL constraint the
\* model class declares raises IntegrityError.
FlushOutcomes == {"ok", "IntegrityError"}

IngestInit ==
    /\ IngestOff
    /\ FetchOff
    /\ KbOff
    /\ TxOff
    /\ CrawlOff
    /\ PagesOff
    /\ SchedOff
    /\ CallOff
    /\ CompareOff
    /\ ScriptsOff
    /\ JobOff

\* save_transactions is called by a process: the scheduled job of the
\* server, or scripts/collect_historical.py, each with its own session.
SaveTransactionsBegin ==
    \E r \in Runs :
        /\ ingest_pc[r] \in {"idle", "raised"}
        /\ runs_done[r] < MaxCalls
        /\ \E b \in Batches : batch' = [batch EXCEPT ![r] = b]
        /\ saved_count' = [saved_count EXCEPT ![r] = 0]
        /\ duplicate_count' = [duplicate_count EXCEPT ![r] = 0]
        /\ ingest_pc' = [ingest_pc EXCEPT ![r] = "loop"]
        /\ UNCHANGED <<rt_rows, cx_rows, created, pending, runs_done,
                       notIngest>>

\* One pass of the loop over the transactions.  A record whose apt_name
\* matches no complex has one created, and the IntegrityError of its flush
\* leaves save_transactions, whose caller closes the session.  The query of
\* _is_duplicate sees the committed rows and the rows this session added; a
\* duplicate is counted, any other record is added to the session.  After
\* the last record, with nothing saved or created the call returns.
SaveRecord ==
    \E r \in Runs :
        /\ ingest_pc[r] = "loop"
        /\ LET tx == Head(batch[r])
               seen == [t \in Txs |-> rt_rows[t] + pending[r][t]]
               dup == IsDuplicate(seen, tx)
               saved == IF dup THEN saved_count[r] ELSE saved_count[r] + 1
               last == Tail(batch[r]) = <<>>
               found == Matched(cx_rows, created[r], tx.apt_name)
           IN  \E fl \in IF found THEN {"ok"} ELSE FlushOutcomes :
                 IF fl = "IntegrityError"
                 THEN /\ ingest_pc' = [ingest_pc EXCEPT ![r] = "raised"]
                      /\ batch' = [batch EXCEPT ![r] = <<>>]
                      /\ pending' = [pending EXCEPT ![r] = [t \in Txs |-> 0]]
                      /\ created' = [created EXCEPT ![r] = FALSE]
                      /\ runs_done' = [runs_done EXCEPT ![r] = @ + 1]
                      /\ UNCHANGED <<saved_count, duplicate_count>>
                 ELSE /\ created' = [created EXCEPT ![r] = @ \/ ~found]
                      /\ batch' = [batch EXCEPT ![r] = Tail(@)]
                      /\ saved_count' = [saved_count EXCEPT ![r] = saved]
                      /\ duplicate_count' =
                             [duplicate_count EXCEPT ![r] =
                                 IF dup THEN @ + 1 ELSE @]
                      /\ pending' = IF dup THEN pending
                                    ELSE [pending EXCEPT ![r][tx] = @ + 1]
                      /\ ingest_pc' = [ingest_pc EXCEPT ![r] =
                                          IF ~last THEN "loop"
                                          ELSE IF saved > 0 THEN "commit"
                                          ELSE "idle"]
                      /\ runs_done' = [runs_done EXCEPT ![r] =
                                          IF last /\ saved = 0 THEN @ + 1
                                          ELSE @]
        /\ UNCHANGED <<rt_rows, cx_rows, notIngest>>

\* db.commit() of save_transactions, and its return
SaveCommit ==
    \E r \in Runs :
        /\ ingest_pc[r] = "commit"
        /\ rt_rows' = [t \in Txs |-> rt_rows[t] + pending[r][t]]
        /\ cx_rows' = IF created[r] THEN cx_rows + 1 ELSE cx_rows
        /\ pending' = [pending EXCEPT ![r] = [t \in Txs |-> 0]]
        /\ created' = [created EXCEPT ![r] = FALSE]
        /\ ingest_pc' = [ingest_pc EXCEPT ![r] = "idle"]
        /\ runs_done' = [runs_done EXCEPT ![r] = @ + 1]
        /\ UNCHANGED <<batch, saved_count, duplicate_count, notIngest>>

IngestNext ==
    \/ SaveTransactionsBegin
    \/ SaveRecord
    \/ SaveCommit

SpecIngest == IngestInit /\ [][IngestNext]_vars

\* C20: the store holds at most one real_transaction row for every record
\* (complex, area, floor, deal date, deal price), a floor of None equal to
\* a floor of None, after any runs of save_transactions.  (Stated for the
\* records of the stored complex: two runs that each create a complex for
\* the new name store their rows under two complex ids.)
C20_OneRowPerRecord ==
    \A t \in Txs : t.apt_name = 1 => rt_rows[t] <= 1

\* C21: save_transactions resolves every record to a complex: for a record
\* that matches no stored complex it creates one and goes on to store the
\* record; no call ends in an exception that leaves the record unstored.
C21_EveryRecordResolved ==
    \A r \in Runs : ingest_pc[r] # "raised"

\* C11: a full crawl of a region writes in one transaction.  Nothing is
\* committed while the crawl runs; it commits once, after the last dong, and
\* the commit holds every write of the crawl; a crawl that raised committed
\* nothing, its session is rolled back and the store is as it was before.
C11_OneTransactionPerRegion ==
    crawl_mode = "full" =>
        /\ commits <= 1
        /\ crawl_pc # "idle" => (store = base /\ commits = 0)
        /\ crawl_out = "raised" =>
              (commits = 0 /\ store = base /\ sess = store)
        /\ commits = 1 =>
              /\ crawl_pc = "idle"
              /\ crawl_out = "returned"
              /\ dong_i = Len(DongList)
              /\ store = sess

\* A full crawl raised after it had written to its session, and the rollback
\* discarded the writes.
C11_Witness ==
    /\ crawl_mode = "full"
    /\ crawl_out = "raised"
    /\ dropped
    /\ asked_articles # {}

\* C12: after crawl_complex of a complex, a stored listing of the complex is
\* active exactly when its article id is among the ids fetched by that call.
C12_ActiveIffFetched ==
    (lastCx # 0 /\ (crawl_pc # "idle" \/ commits > 0)) =>
        \A a \in Articles :
            (OwnerOf(a) = lastCx /\ sess.listings[a] # NoRow) =>
                (sess.listings[a].active <=> a \in lastIds)

\* C14: in an incremental crawl a complex with a dealCnt above 0 that equals
\* its stored active count is skipped: no article request, no row of it
\* changed, counted once in skipped_same; every other complex with a dealCnt
\* above 0 is a crawl target and gets its article request.
C14_SkipOnSameCount ==
    LET nos == Range(all_complexes)
        same == {c \in nos : /\ DealCnt(snap, c) > 0
                             /\ DealCnt(snap, c) = DbCount(base, c)}
    IN  (/\ crawl_mode = "incr"
         /\ crawl_pc = "targets" \/ (crawl_pc = "idle" /\ commits = 1)) =>
            /\ skipped_same = Cardinality(same)
            /\ \A c \in same :
                  /\ c \notin asked_articles
                  /\ c \in sess.complexes <=> c \in base.complexes
                  /\ \A a \in Articles :
                        OwnerOf(a) = c => sess.listings[a] = base.listings[a]
            /\ \A c \in nos \ same :
                  DealCnt(snap, c) > 0 =>
                      /\ c \in Range(crawl_targets)
                      /\ crawl_pc = "idle" => c \in asked_articles

\* An incremental crawl that committed skipped one complex with an active
\* listing and fetched the articles of another.
C14_Witness ==
    /\ crawl_mode = "incr"
    /\ crawl_pc = "idle"
    /\ commits = 1
    /\ skipped_same >= 1
    /\ asked_articles # {}
    /\ \E a \in Articles :
          /\ OwnerOf(a) \notin asked_articles
          /\ DealCnt(snap, OwnerOf(a)) > 0
          /\ store.listings[a] # NoRow
          /\ store.listings[a].active

\* C15: in an incremental crawl every complex with dealCnt 0 has all its
\* listings inactive and gets no article request, and the bulk deactivation
\* leaves the listings of the other complexes as they were.
C15_ZeroDealDeactivated ==
    LET zero == {c \in Range(all_complexes) : DealCnt(snap, c) = 0}
    IN  (/\ crawl_mode = "incr"
         /\ crawl_pc = "targets" \/ (crawl_pc = "idle" /\ commits = 1)) =>
            /\ \A c \in zero : c \notin asked_articles
            /\ \A a \in Articles :
                  IF OwnerOf(a) \in zero
                  THEN /\ ~sess.listings[a].active
                       /\ ~afterBulk.listings[a].active
                  ELSE afterBulk.listings[a] = base.listings[a]

\* An incremental crawl committed the deactivation of a listing that was
\* active, of a complex with dealCnt 0, and another complex kept an active
\* listing.
C15_Witness ==
    /\ crawl_mode = "incr"
    /\ crawl_pc = "idle"
    /\ commits = 1
    /\ \E a \in Articles :
          /\ OwnerOf(a) \in Range(all_complexes)
          /\ DealCnt(snap, OwnerOf(a)) = 0
          /\ base.listings[a].active
          /\ ~store.listings[a].active
    /\ \E a \in Articles :
          /\ DealCnt(snap, OwnerOf(a)) > 0
          /\ base.listings[a].active
          /\ store.listings[a].active

\* C16: an incremental crawl that follows a full crawl of the same source
\* snapshot, every call of both answered whole, changes no row: the session
\* and the store stay as they were when it started.
C16_IncrementalChangesNothing ==
    (crawl_mode = "incr" /\ sinceFull /\ clean) =>
        (sess = base /\ store = base)

\* Such an incremental crawl committed, having skipped one complex, fetched
\* the articles of another again and met a complex without articles.
C16_Witness ==
    /\ crawl_mode = "incr"
    /\ sinceFull
    /\ clean
    /\ crawl_pc = "idle"
    /\ commits = 1
    /\ skipped_same >= 1
    /\ asked_articles # {}
    /\ \E a \in Articles : store.listings[a].active

\* C30: an incremental crawl of a region that committed its writes returns
\* its stats to the caller, so that crawl_all_target_regions_incremental
\* records the region with its counts and without an "error" entry.
C30_CommittedCrawlReturns ==
    (crawl_mode = "incr" /\ crawl_pc = "idle" /\ commits = 1) =>
        crawl_out = "returned"

\* ------------------------------------------------------------------------
\* SpecCall: the functions of the pipeline that compute a value from their
\* arguments alone, each called once on arguments drawn from bounded sets.
\* ------------------------------------------------------------------------
\* The items _parse_xml_items makes of a response: every value is the
\* stripped text of a tag, "" for an empty tag and for a tag that is missing
\* (raw.get(key, "")).  "x" stands for an amount that int() rejects.
RawItems ==
    [aptNm : {"", "a", "b"}, dealAmount : {"", "85,000", "x"},
     dealDay : {"", "15"}, cdealType : {"", "O"}]

\* A check that never finds a deal cancelled.
NeverCancelled(raw) == FALSE

\* cdeal_type == "O"
IsCancelled(raw) == raw.cdealType = "O"

\* normalize_transaction: None for a missing name, amount or date, for an
\* amount that is no number (the ValueError is caught) and for a cancelled
\* deal; the normalized record otherwise.
normalize_transaction(raw) ==
    IF raw.aptNm = "" THEN <<>>
    ELSE IF raw.dealAmount = "" THEN <<>>
    ELSE IF raw.dealAmount = "x" THEN <<>>
    ELSE IF raw.dealDay = "" THEN <<>>
    ELSE IF IsCancelled(raw) THEN <<>>
    ELSE <<[apt_name |-> raw.aptNm, deal_price |-> 85000,
            deal_day |-> 15]>>

\* The loop of fetch_transactions and of fetch_all_transactions over the
\* items of a page: the normalized records that are not None, in order.
RECURSIVE Normalized(_)
Normalized(raw_items) ==
    IF raw_items = <<>> THEN <<>>
    ELSE normalize_transaction(Head(raw_items)) \o Normalized(Tail(raw_items))

\* The characters of a complex name: the syllables "ga" (any syllable that
\* is part of no suffix), "dan", "ji", "cha", "dong", the digit "1", the
\* space and the two parentheses.  A name is a sequence of them.
Names ==
    UNION {[1..n -> {"ga", "dan", "ji", "cha", "dong", "1", " ", "(", ")"}] :
              n \in 0..MaxNameLen}

\* re.sub(r"\([^)]*\)", "", name): every "(" that has a ")" after it goes,
\* with the text up to the first such ")".
RECURSIVE RemoveParens(_)
RemoveParens(s) ==
    LET opens == {i \in 1..Len(s) :
                    s[i] = "(" /\ \E j \in (i + 1)..Len(s) : s[j] = ")"}
    IN  IF opens = {} THEN s
        ELSE LET i == CHOOSE o \in opens : \A p \in opens : o <= p
                 j == CHOOSE c \in (i + 1)..Len(s) :
                        /\ s[c] = ")"
                        /\ \A d \in (i + 1)..(c - 1) : s[d] # ")"
             IN  SubSeq(s, 1, i - 1) \o RemoveParens(SubSeq(s, j + 1, Len(s)))

\* re.sub(r"\d+<tok>$", "", name): a name that ends with digits and the
\* token loses both.
StripNumbered(s, tok) ==
    LET n == Len(s) - Len(tok)
    IN  IF n >= 1 /\ SubSeq(s, n + 1, Len(s)) = tok /\ s[n] = "1"
        THEN LET first == CHOOSE i \in 1..n :
                            /\ \A k \in i..n : s[k] = "1"
                            /\ (i > 1 => s[i - 1] # "1")
             IN  SubSeq(s, 1, first - 1)
        ELSE s

\* re.sub(r"[\d,]+dong.*$", "", name): the name is cut at the first run of
\* digits that "dong" follows.
CutAtDong(s) ==
    LET starts == {i \in 1..Len(s) :
                     \E j \in i..(Len(s) - 1) :
                         /\ \A k \in i..j : s[k] = "1"
                         /\ s[j + 1] = "dong"}
    IN  IF starts = {} THEN s
        ELSE SubSeq(s, 1, (CHOOSE i \in starts : \A p \in starts : i <= p) - 1)

\* _normalize_name of kb_price_client: lower() changes none of the
\* characters, and strip() finds no space left.
kb_normalize_name(name) ==
    SelectSeq(StripNumbered(StripNumbered(RemoveParens(name),
                                          <<"dan", "ji">>),
                            <<"cha">>),
              LAMBDA c : c \notin {" ", "(", ")"})

\* _normalize_name of real_transaction_service.  The third substitution
\* wants a "~" or a "-" between two dong numbers, which the names here do
\* not have; strip() finds no space left.
rt_normalize_name(name) ==
    SelectSeq(StripNumbered(CutAtDong(RemoveParens(name)), <<"dong">>),
              LAMBDA c : c # " ")

\* _calc_match_score.  IsIn is Python's "in" of two strings, Words is
\* re.findall(r"[Hangul]{2,}", s) as a set: the maximal runs of two or more
\* syllables.
calc_match_score(target, candidate) ==
    LET Hangul == {"ga", "dan", "ji", "cha", "dong"}
        IsIn(a, b) ==
            \E i \in 0..(Len(b) - Len(a)) : SubSeq(b, i + 1, i + Len(a)) = a
        Words(s) ==
            {SubSeq(s, w[1], w[2]) : w \in
                {w \in (1..Len(s)) \X (1..Len(s)) :
                    /\ w[1] < w[2]
                    /\ \A k \in w[1]..w[2] : s[k] \in Hangul
                    /\ (w[1] > 1 => s[w[1] - 1] \notin Hangul)
                    /\ (w[2] < Len(s) => s[w[2] + 1] \notin Hangul)}}
    IN  IF target = <<>> \/ candidate = <<>> THEN 0
        ELSE IF target = candidate THEN 100
        ELSE IF IsIn(target, candidate) \/ IsIn(candidate, target) THEN 70
        ELSE IF Words(target) \cap Words(candidate) # {} THEN 40
        ELSE 0

\* A comparison that lets every later complex replace the best one.
AlwaysBetter(score, best_score) == TRUE

\* score > best_score
Better(score, best_score) == score > best_score

\* match_complex, given the list that get_complex_list returned: the index
\* of the complex it returns, None for an empty list and for a best score
\* under 40.  BestOf is <<best_match, best_score>> after the first n
\* complexes of the loop, best_match being an index and 0 for None.
match_complex(complex_name, complexes) ==
    LET clean_target == kb_normalize_name(complex_name)
        RECURSIVE BestOf(_)
        BestOf(n) ==
            IF n = 0 THEN <<0, 0>>
            ELSE LET before == BestOf(n - 1)
                     score ==
                         calc_match_score(clean_target,
                                          kb_normalize_name(complexes[n]))
                 IN  IF Better(score, before[2]) THEN <<n, score>>
                     ELSE before
        best == BestOf(Len(complexes))
    IN  IF complexes = <<>> THEN <<>>
        ELSE IF best[1] # 0 /\ best[2] >= 40 THEN <<best[1]>>
        ELSE <<>>

\* The names that match_complex is called with, as target and in the list.
ComplexNames ==
    {<<>>, <<"1">>, <<"ga", "ga">>, <<"ga", "ga", "1">>, <<"1", "ga", "ga">>,
     <<"ga", "ga", "1", "cha">>}

\* The complexName and address texts of the source, "" for a missing one.
Texts == {"", "t1", "t2"}

\* _upsert_complex, given the row that the query by naver_complex_no found
\* (<<>> for none): None without a complexNo; the found row with
\* name = name or existing.name and address likewise; else a new row.
upsert_complex(existing, complex_data) ==
    IF complex_data.complexNo = "" THEN <<>>
    ELSE IF existing # <<>>
    THEN <<[name |-> IF complex_data.complexName # ""
                     THEN complex_data.complexName ELSE existing[1].name,
            address |-> IF complex_data.address # ""
                        THEN complex_data.address ELSE existing[1].address]>>
    ELSE <<[name |-> complex_data.complexName,
            address |-> complex_data.address]>>

\* <<kb_mid, deal_price>> of a KBPrice row and of its recent deal, in
\* 10,000 won: every pair of small prices, and pairs of the size of real
\* prices, one of them a tie between two hundredths.
MidsAndDeals ==
    ((0..MaxPrice) \X (1..MaxPrice))
        \cup {<<250000, 230000>>, <<250000, 249990>>, <<250000, 250010>>,
              <<250000, 270000>>, <<20000, 19999>>, <<20000, 20001>>}

\* A rounding that cuts the digits after the second decimal.
Truncate2(n, d) == {(n * 10000) \div d}

\* round(n / d * 100, 2) in hundredths: the nearest hundredth; where the
\* quotient lies halfway between two, the binary fraction that the float
\* division left decides, so either may come out.
Round2(n, d) ==
    LET f == (n * 10000) \div d
        r == (n * 10000) % d
    IN  IF 2 * r < d THEN {f}
        ELSE IF 2 * r > d THEN {f + 1}
        ELSE {f, f + 1}

\* The values of deal_discount_rate that update_all_comparisons may write,
\* in hundredths of a percent; none when the division raises
\* ZeroDivisionError.
discount_rate(kb_mid, deal_price) ==
    IF kb_mid = 0 THEN {} ELSE Round2(kb_mid - deal_price, kb_mid)

\* The apartment names of a batch and of the stored complexes of its
\* region: a name, the name with a space in it, a name that contains it, a
\* name of one syllable, and a longer name that contains another.
AptNames ==
    {<<"ga", "ji">>, <<"ga", " ", "ji">>, <<"ga", "ji", "ga">>, <<"ji">>,
     <<"ji", "ga", "ji", "ga">>}

\* a in b of two strings
IsSub(a, b) ==
    \E i \in 0..(Len(b) - Len(a)) : SubSeq(b, i + 1, i + Len(a)) = a

\* _match_complex(db, apt_name, sido, sigungu) against the complexes of the
\* region, rows[i] being the name of the complex with id i: the ids it may
\* return, none when it returns None.  Where the code takes .first() of an
\* unordered query, or the first hit of a loop over one, any of the hits
\* may come first.
rt_match_complex(rows, apt_name) ==
    LET NoSpace(n) == SelectSeq(n, LAMBDA ch : ch # " ")
        ids == DOMAIN rows
        api_norm == rt_normalize_name(apt_name)
        db_norm(i) == rt_normalize_name(rows[i])
        MinLen(i) == Min(Len(api_norm), Len(db_norm(i)))
        exact == {i \in ids : rows[i] = apt_name}
        like == {i \in ids : IsSub(apt_name, rows[i])}
        no_space == {i \in ids : NoSpace(rows[i]) = NoSpace(apt_name)}
        same_norm == IF Len(api_norm) >= 2
                     THEN {i \in ids : db_norm(i) = api_norm}
                     ELSE {}
        either == IF Len(api_norm) >= 3
                  THEN {i \in ids :
                          /\ Len(db_norm(i)) >= 3
                          /\ \/ IsSub(api_norm, db_norm(i))
                             \/ IsSub(db_norm(i), api_norm)}
                  ELSE {}
        longest == {i \in either : \A j \in either : MinLen(j) <= MinLen(i)}
    IN  IF exact # {} THEN exact
        ELSE IF like # {} THEN like
        ELSE IF no_space # {} THEN no_space
        ELSE IF same_norm # {} THEN same_norm
        ELSE longest

\* the cache is never hit
NeverInCache(match_cache, apt_name) == FALSE

\* apt_name in match_cache; a name without an entry is held with id 0
InCache(match_cache, apt_name) == match_cache[apt_name] # 0

\* The loop of save_transactions over the names of its records, rows being
\* the complexes the session sees: what a call can have done when it ends.
\*   lookups  - the names _match_complex was called for, in order
\*   attached - per record, its apt_name and the complex_id it was given
\*   created  - the names _create_complex was called for, in order
\*   raised   - the flush of _create_complex raised, which ends the call
RECURSIVE SaveLoop(_, _, _, _)
SaveLoop(txs, rows, match_cache, done) ==
    IF txs = <<>> THEN {done}
    ELSE LET apt_name == Head(txs)
             Rest(c, rs, d) ==
                 SaveLoop(Tail(txs), rs, c,
                          [d EXCEPT !.attached = Append(@, <<apt_name, c[apt_name]>>)])
         IN  IF InCache(match_cache, apt_name)
             THEN Rest(match_cache, rows, done)
             ELSE LET existing == rt_match_complex(rows, apt_name)
                      looked == [done EXCEPT !.lookups = Append(@, apt_name)]
                      new_id == Len(rows) + 1
                      made == [looked EXCEPT !.created = Append(@, apt_name)]
                  IN  IF existing # {}
                      THEN UNION {Rest([match_cache EXCEPT ![apt_name] = id],
                                       rows, looked) : id \in existing}
                      ELSE {[made EXCEPT !.raised = TRUE]}
                           \cup Rest([match_cache EXCEPT ![apt_name] = new_id],
                                     Append(rows, apt_name), made)

save_transactions(transactions, rows) ==
    SaveLoop(transactions, rows, [n \in AptNames |-> 0],
             [lookups |-> <<>>, attached |-> <<>>, created |-> <<>>,
              raised |-> FALSE])

\* The area types get_complex_types returns for a KB complex.  area_seq is
\* the type's serial number, 0 when the field is missing.  area is the
\* "exclusive area" string: 0 the empty string, -1 a string float() cannot
\* parse, any other value the area in hundredths of a square metre.
Types == [area_seq : {1}, area : {0, -1, 5994, 5996, 6000}]
             \cup [area_seq : {0}, area : {5994}]

\* What get_price_by_area does for a type: it returns None (the fetch
\* failed, or the payload holds no price), it returns the first price
\* record, whose mid price is a number or null (<<>>), or the 200 response
\* is not JSON and response.json() raises out of _request.
PriceCalls ==
    [kind : {"None", "raise"}, mid : {<<>>}]
        \cup [kind : {"record"}, mid : {<<>>, <<0>>, <<5>>}]

\* round(area_sqm, 1), in tenths; none of the areas is halfway
Round1(area) == (area + 5) \div 10

\* The loop of get_all_prices from type i on: the records it returns, or
\* "raised" when a price call raises.
RECURSIVE PricesLoop(_, _, _, _, _)
PricesLoop(types, answers, i, seen_areas, prices) ==
    IF i > Len(types) THEN prices
    ELSE LET typ == types[i]
             price_data == answers[i]
             skip == PricesLoop(types, answers, i + 1, seen_areas, prices)
         IN  IF typ.area_seq = 0 \/ typ.area = 0 THEN skip
             ELSE IF typ.area = -1 THEN skip
             ELSE IF Round1(typ.area) \in seen_areas THEN skip
             ELSE IF price_data.kind = "raise" THEN "raised"
             ELSE IF price_data.kind = "None" THEN skip
             ELSE IF price_data.mid = <<>> THEN skip
             ELSE PricesLoop(types, answers, i + 1,
                             seen_areas \cup {Round1(typ.area)},
                             Append(prices, [area_sqm |-> typ.area,
                                              price_mid |-> price_data.mid]))

\* get_all_prices(complex_id): <<records>>, or <<>> when it raises
get_all_prices(types, answers) ==
    LET prices == PricesLoop(types, answers, 1, {}, <<>>)
    IN  IF prices = "raised" THEN <<>> ELSE <<prices>>

\* The districts of a province as get_sub_regions lists them: a name (its
\* syllables) and the code of the district.
Districts ==
    {[cortarName |-> <<"seo", "gu">>, cortarNo |-> 1],
     [cortarName |-> <<"gang", "seo", "gu">>, cortarNo |-> 2],
     [cortarName |-> <<"jung", "gu">>, cortarNo |-> 3]}

\* the lists of districts, in every order
RegionLists ==
    {q \in UNION {[1..n -> Districts] : n \in 0..Cardinality(Districts)} :
        \A i \in DOMAIN q : \A j \in DOMAIN q : q[i] = q[j] => i = j}

\* if sigungu in cortar_name or cortar_name in sigungu
NameFits(sigungu, cortar_name) ==
    IsSub(sigungu, cortar_name) \/ IsSub(cortar_name, sigungu)

\* _find_sigungu_code for a province that is known: the code of the first
\* region of the list that fits, None for an empty list or when none fits.
find_sigungu_code(sigungu, regions) ==
    LET fits == {i \in DOMAIN regions : NameFits(sigungu, regions[i].cortarName)}
    IN  IF fits = {} THEN <<>>
        ELSE <<regions[CHOOSE i \in fits : \A j \in fits : i <= j].cortarNo>>

\* A call of one of the functions, on arguments of its kind, not yet made.
CallInit ==
    /\ \/ /\ call_fn = "normalize_transaction"
          /\ call_arg \in RawItems
       \/ /\ call_fn = "fetch_transactions"
          /\ call_arg \in UNION {[1..n -> RawItems] : n \in 0..MaxItems}
       \/ /\ call_fn \in {"kb_normalize_name", "rt_normalize_name"}
          /\ call_arg \in Names
       \/ /\ call_fn = "upsert_complex"
          /\ call_arg \in
                [existing : {<<>>} \cup {<<r>> : r \in [name : Texts,
                                                       address : Texts]},
                 complex_data : [complexNo : {"", "1"}, complexName : Texts,
                                 address : Texts]]
       \/ /\ call_fn = "discount_rate"
          /\ call_arg \in MidsAndDeals
       \/ /\ call_fn = "find_sigungu_code"
          /\ call_arg \in [sigungu : {d.cortarName : d \in Districts},
                           regions : RegionLists]
       \/ /\ call_fn = "get_all_prices"
          /\ \E n \in 0..MaxTypes :
                call_arg \in [types : [1..n -> Types],
                              answers : [1..n -> PriceCalls]]
       \/ /\ call_fn = "save_transactions"
          /\ call_arg \in
                [transactions : UNION {[1..n -> AptNames] : n \in 0..MaxRecords},
                 rows : UNION {[1..n -> AptNames] : n \in 0..MaxCands}]
       \/ /\ call_fn = "match_complex"
          /\ call_arg \in
                [complex_name : ComplexNames,
                 complexes : UNION {[1..n -> ComplexNames] : n \in 0..MaxCands}]
    /\ returned = FALSE
    /\ call_ret = <<>>
    /\ FetchOff
    /\ KbOff
    /\ TxOff
    /\ CrawlOff
    /\ PagesOff
    /\ SchedOff
    /\ IngestOff
    /\ CompareOff
    /\ ScriptsOff
    /\ JobOff

NormalizeTransactionCall ==
    /\ call_fn = "normalize_transaction"
    /\ ~returned
    /\ returned' = TRUE
    /\ call_ret' = normalize_transaction(call_arg)
    /\ UNCHANGED <<call_fn, call_arg, notCall>>

FetchTransactionsCall ==
    /\ call_fn = "fetch_transactions"
    /\ ~returned
    /\ returned' = TRUE
    /\ call_ret' = <<Normalized(call_arg)>>
    /\ UNCHANGED <<call_fn, call_arg, notCall>>

KbNormalizeNameCall ==
    /\ call_fn = "kb_normalize_name"
    /\ ~returned
    /\ returned' = TRUE
    /\ call_ret' = <<kb_normalize_name(call_arg)>>
    /\ UNCHANGED <<call_fn, call_arg, notCall>>

RtNormalizeNameCall ==
    /\ call_fn = "rt_normalize_name"
    /\ ~returned
    /\ returned' = TRUE
    /\ call_ret' = <<rt_normalize_name(call_arg)>>
    /\ UNCHANGED <<call_fn, call_arg, notCall>>

MatchComplexCall ==
    /\ call_fn = "match_complex"
    /\ ~returned
    /\ returned' = TRUE
    /\ call_ret' = match_complex(call_arg.complex_name, call_arg.complexes)
    /\ UNCHANGED <<call_fn, call_arg, notCall>>

UpsertComplexCall ==
    /\ call_fn = "upsert_complex"
    /\ ~returned
    /\ returned' = TRUE
    /\ call_ret' = upsert_complex(call_arg.existing, call_arg.complex_data)
    /\ UNCHANGED <<call_fn, call_arg, notCall>>

\* The computation of the rate in update_all_comparisons: it raises, or
\* gives the rate that goes into the row.
DiscountRateCall ==
    /\ call_fn = "discount_rate"
    /\ ~returned
    /\ returned' = TRUE
    /\ \/ /\ discount_rate(call_arg[1], call_arg[2]) = {}
          /\ call_ret' = <<>>
       \/ \E h \in discount_rate(call_arg[1], call_arg[2]) :
              call_ret' = <<h>>
    /\ UNCHANGED <<call_fn, call_arg, notCall>>

\* save_transactions runs over its records and returns or raises.
SaveTransactionsCall ==
    /\ call_fn = "save_transactions"
    /\ ~returned
    /\ returned' = TRUE
    /\ \E t \in save_transactions(call_arg.transactions, call_arg.rows) :
          call_ret' = <<t>>
    /\ UNCHANGED <<call_fn, call_arg, notCall>>

GetAllPricesCall ==
    /\ call_fn = "get_all_prices"
    /\ ~returned
    /\ returned' = TRUE
    /\ call_ret' = get_all_prices(call_arg.types, call_arg.answers)
    /\ UNCHANGED <<call_fn, call_arg, notCall>>

FindSigunguCodeCall ==
    /\ call_fn = "find_sigungu_code"
    /\ ~returned
    /\ returned' = TRUE
    /\ call_ret' = find_sigungu_code(call_arg.sigungu, call_arg.regions)
    /\ UNCHANGED <<call_fn, call_arg, notCall>>

CallNext ==
    \/ NormalizeTransactionCall
    \/ FetchTransactionsCall
    \/ KbNormalizeNameCall
    \/ RtNormalizeNameCall
    \/ MatchComplexCall
    \/ UpsertComplexCall
    \/ DiscountRateCall
    \/ SaveTransactionsCall
    \/ GetAllPricesCall
    \/ FindSigunguCodeCall

SpecCall == CallInit /\ [][CallNext]_vars

\* C22: normalize_transaction returns None for every item whose cdealType
\* is "O", and every record that fetch_transactions / fetch_all_transactions
\* return comes from an item of the page that is not cancelled.
C22_CancelledDealsDropped ==
    /\ (returned /\ call_fn = "normalize_transaction"
            /\ call_arg.cdealType = "O") => call_ret = <<>>
    /\ (returned /\ call_fn = "fetch_transactions") =>
          \A i \in 1..Len(call_ret[1]) :
              \E j \in 1..Len(call_arg) :
                  /\ call_arg[j].aptNm = call_ret[1][i].apt_name
                  /\ call_arg[j].cdealType # "O"

\* A page with a cancelled deal of one complex and a standing deal of
\* another came back as the standing deal alone.
C22_Witness ==
    /\ returned
    /\ call_fn = "fetch_transactions"
    /\ \E j \in 1..Len(call_arg) :
          /\ call_arg[j].cdealType = "O"
          /\ call_arg[j].aptNm = "a"
          /\ call_arg[j].dealAmount = "85,000"
          /\ call_arg[j].dealDay = "15"
    /\ Len(call_ret[1]) = 1
    /\ call_ret[1][1].apt_name = "b"

\* ------------------------------------------------------------------------
\* SpecCompare: the comparison of the KB price of one (complex, area) with
\* the recent deals, while prices are collected, transactions are ingested
\* and days pass.
\* ------------------------------------------------------------------------
\* The kb_price row is that of complex 1 and 59 m2.
KbComplex == 1
KbArea == 59

\* KBPrice.price_mid of a row without a general price: None, which is not
\* the price 0.
None == 0 - 1

\* A filter that takes every area.
AnyArea(a, area_sqm) == TRUE

\* RealTransaction.area_sqm.between(area_sqm - area_tolerance,
\*                                  area_sqm + area_tolerance)
InTolerance(a, area_sqm) ==
    a >= area_sqm - area_tolerance /\ a <= area_sqm + area_tolerance

\* The rows that both queries of _get_recent_deal filter, cutoff being
\* datetime.now() - timedelta(days=RECENT_DEAL_DAYS).
RecentDeals(rows, complex_id, area_sqm, now) ==
    {t \in Deals :
        /\ rows[t] > 0
        /\ t.complex_id = complex_id
        /\ InTolerance(t.area_sqm, area_sqm)
        /\ t.deal_date >= now - RECENT_DEAL_DAYS}

\* _get_recent_deal: the results it may give, none for None.  first() of
\* the rows in descending deal_date is any row of the latest date.
get_recent_deal(rows, complex_id, area_sqm, now) ==
    LET such == RecentDeals(rows, complex_id, area_sqm, now)
    IN  {[deal_price |-> t.deal_price, deal_date |-> t.deal_date,
          deal_count |-> SumOver(such, rows)] :
            t \in {u \in such : \A v \in such : v.deal_date <= u.deal_date}}

CompareInit ==
    /\ CompareOff
    /\ FetchOff
    /\ KbOff
    /\ TxOff
    /\ CrawlOff
    /\ PagesOff
    /\ SchedOff
    /\ IngestOff
    /\ CallOff
    /\ ScriptsOff
    /\ JobOff

\* _upsert_kb_prices for the one area: a new row takes price_mid as it
\* comes, a row that exists takes it unless it is None and has its
\* updated_at set to datetime.now().
upsert_kb_prices(existing, price_mid, now) ==
    IF existing = <<>>
    THEN <<[price_mid |-> price_mid, updated_at |-> now]>>
    ELSE <<[price_mid |-> IF price_mid # None THEN price_mid
                          ELSE existing[1].price_mid,
            updated_at |-> now]>>

\* update_all_comparisons: what it may leave as the complex_comparison row,
\* and its counters updated and skipped when it returns or raises.  The
\* kb_price row is skipped when its price_mid is None or it has no recent
\* deal; else the discount rate is computed, the division raising for a
\* price_mid of 0 before the commit, and its complex_comparison row is
\* written.
update_all_comparisons(kb, rows, existing, now) ==
    IF kb = <<>>
    THEN {[row |-> existing,
           ret |-> [updated |-> 0, skipped |-> 0, raised |-> FALSE]]}
    ELSE IF \/ kb[1].price_mid = None
            \/ get_recent_deal(rows, KbComplex, KbArea, now) = {}
    THEN {[row |-> existing,
           ret |-> [updated |-> 0, skipped |-> 1, raised |-> FALSE]]}
    ELSE UNION
           {IF discount_rate(kb[1].price_mid, recent.deal_price) = {}
            THEN {[row |-> existing,
                   ret |-> [updated |-> 0, skipped |-> 0, raised |-> TRUE]]}
            ELSE {[row |-> <<[kb_price_mid |-> kb[1].price_mid,
                              recent_deal_price |-> recent.deal_price,
                              recent_deal_date |-> recent.deal_date,
                              deal_discount_rate |-> rate,
                              deal_count_3m |-> recent.deal_count]>>,
                   ret |-> [updated |-> 1, skipped |-> 0, raised |-> FALSE]] :
                     rate \in discount_rate(kb[1].price_mid,
                                            recent.deal_price)} :
            recent \in get_recent_deal(rows, KbComplex, KbArea, now)}

\* A KB collection stores the price of the area, with or without a general
\* price; get_all_prices keeps a general price of 0.
KbPriceUpsert ==
    /\ \E price_mid \in {None, 0, 10} :
          kb_price' = upsert_kb_prices(kb_price, price_mid, today)
    /\ compared' = <<>>
    /\ UNCHANGED <<today, real_transaction, complex_comparison, feed, step,
                   apartment_complex, listing, after_first, notCompare>>

\* A record that _is_duplicate finds stored.
NeverDuplicate(rows, t) == FALSE

\* _is_duplicate: a row of the same complex, area, date and price exists.
is_duplicate(rows, t) == rows[t] > 0

\* save_transactions commits a deal that is not stored yet.
TransactionSaved ==
    /\ SumOver(Deals, real_transaction) < MaxTx
    /\ \E t \in Deals :
          /\ ~is_duplicate(real_transaction, t)
          /\ t.deal_date <= today
          /\ real_transaction' = [real_transaction EXCEPT ![t] = @ + 1]
    /\ compared' = <<>>
    /\ UNCHANGED <<today, kb_price, complex_comparison, feed, step,
                   apartment_complex, listing, after_first, notCompare>>

\* 45 days pass.
DaysPass ==
    /\ today < MaxDay
    /\ today' = today + 1
    /\ compared' = <<>>
    /\ UNCHANGED <<kb_price, real_transaction, complex_comparison, feed, step,
                   apartment_complex, listing, after_first, notCompare>>

\* A comparison pass.
UpdateAllComparisons ==
    /\ \E o \in update_all_comparisons(kb_price, real_transaction,
                                       complex_comparison, today) :
          /\ complex_comparison' = o.row
          /\ compared' = <<o.ret>>
    /\ UNCHANGED <<today, kb_price, real_transaction, feed, step,
                   apartment_complex, listing, after_first, notCompare>>

CompareNext ==
    \/ KbPriceUpsert
    \/ TransactionSaved
    \/ DaysPass
    \/ UpdateAllComparisons

SpecCompare == CompareInit /\ [][CompareNext]_vars

\* C23: when a comparison pass has returned, a complex_comparison row
\* exists only if the kb_price row exists and a deal of the complex within
\* the area tolerance is at most 90 days old.
C23_ComparisonHasRecentDeal ==
    (compared # <<>> /\ complex_comparison # <<>>) =>
        /\ kb_price # <<>>
        /\ \E t \in Deals :
              /\ real_transaction[t] > 0
              /\ t.complex_id = KbComplex
              /\ t.area_sqm - KbArea <= 3
              /\ KbArea - t.area_sqm <= 3
              /\ today - t.deal_date <= 2

\* C25: the row that a comparison pass wrote has the price and the date of
\* a deal of the same complex, within 3 m2 of the area and at most 90 days
\* old, that no such deal is later than, and its deal_count_3m is the
\* number of such deals, at least 1.
C25_LatestDealWithinTolerance ==
    (compared # <<>> /\ compared[1].updated = 1) =>
        LET row == complex_comparison[1]
            such == {t \in Deals :
                        /\ real_transaction[t] > 0
                        /\ t.complex_id = KbComplex
                        /\ t.area_sqm - KbArea <= 3
                        /\ KbArea - t.area_sqm <= 3
                        /\ today - t.deal_date <= 2}
        IN  /\ \E t \in such :
                  /\ t.deal_price = row.recent_deal_price
                  /\ t.deal_date = row.recent_deal_date
                  /\ \A u \in such : u.deal_date <= t.deal_date
            /\ row.deal_count_3m = SumOver(such, real_transaction)
            /\ row.deal_count_3m >= 1

\* A pass wrote the row from the one deal within the tolerance, a later
\* deal of the complex lying outside it.
C25_Witness ==
    /\ compared # <<>>
    /\ compared[1].updated = 1
    /\ complex_comparison[1].deal_count_3m = 1
    /\ \E t \in Deals :
          /\ real_transaction[t] > 0
          /\ t.complex_id = KbComplex
          /\ t.area_sqm = 63
          /\ t.deal_date > complex_comparison[1].recent_deal_date

\* ------------------------------------------------------------------------
\* SpecRerun: the ingestion of one complex, run twice over one snapshot of
\* the sources: a full listings crawl, the transactions batch, the KB
\* collection, the comparison pass, and the same four again.
\* ------------------------------------------------------------------------
\* What the sources hold: the name of the complex, its one article (absent,
\* unparseable or priced), the deals of the last two periods, the KB
\* price.
Feeds ==
    [complexName : Texts, article : {"absent", "bad"} \cup Prices,
     deals : {b \in SUBSET {t \in Deals : t.deal_date >= MaxDay - 1} :
                 Cardinality(b) <= MaxTx},
     price_mid : {None, 10}]

\* The rows of the five tables.
Store ==
    [apartment_complex |-> apartment_complex, listing |-> listing,
     kb_price |-> kb_price, real_transaction |-> real_transaction,
     complex_comparison |-> complex_comparison]

\* The store before the first run: the complex is new or stored under
\* another name, with its listing in any state, and a KB price may be
\* stored.
RerunInit ==
    /\ today = MaxDay
    /\ feed \in Feeds
    /\ step = 0
    /\ apartment_complex \in {<<>>, <<[name |-> "t2", address |-> ""]>>}
    /\ listing \in IF apartment_complex = <<>> THEN {NoRow} ELSE Rows
    /\ kb_price \in {<<>>, <<[price_mid |-> 10, updated_at |-> 0]>>}
    /\ real_transaction = [t \in Deals |-> 0]
    /\ complex_comparison = <<>>
    /\ compared = <<>>
    /\ after_first = <<>>
    /\ FetchOff
    /\ KbOff
    /\ TxOff
    /\ CrawlOff
    /\ PagesOff
    /\ SchedOff
    /\ IngestOff
    /\ CallOff
    /\ ScriptsOff
    /\ JobOff

\* crawl_complex of the full crawl: the complex is upserted, then its
\* article if the source returns it, and a listing whose article is
\* missing is deactivated.
RunCrawl ==
    /\ step \in {0, 4}
    /\ step' = step + 1
    /\ apartment_complex' =
          upsert_complex(apartment_complex,
                         [complexNo |-> "1", complexName |-> feed.complexName,
                          address |-> ""])
    /\ listing' =
          IF feed.article # "absent" THEN UpsertListing(listing, feed.article)
          ELSE IF listing # NoRow /\ listing.active
          THEN [listing EXCEPT !.active = FALSE]
          ELSE listing
    /\ UNCHANGED <<today, kb_price, real_transaction, complex_comparison,
                   compared, feed, after_first, notCompare>>

\* save_transactions of the deals that the registry returns.
RunTransactions ==
    /\ step \in {1, 5}
    /\ step' = step + 1
    /\ real_transaction' =
          [t \in Deals |->
              IF t \in feed.deals /\ ~is_duplicate(real_transaction, t)
              THEN real_transaction[t] + 1
              ELSE real_transaction[t]]
    /\ UNCHANGED <<today, kb_price, complex_comparison, compared, feed,
                   apartment_complex, listing, after_first, notCompare>>

\* The KB collection; the steps of the runs are its clock.
RunKb ==
    /\ step \in {2, 6}
    /\ step' = step + 1
    /\ kb_price' = upsert_kb_prices(kb_price, feed.price_mid, step)
    /\ UNCHANGED <<today, real_transaction, complex_comparison, compared,
                   feed, apartment_complex, listing, after_first, notCompare>>

\* The comparison pass, which ends a run.
RunCompare ==
    /\ step \in {3, 7}
    /\ step' = step + 1
    /\ \E o \in update_all_comparisons(kb_price, real_transaction,
                                       complex_comparison, today) :
          /\ complex_comparison' = o.row
          /\ after_first' = IF step = 3
                            THEN <<[Store EXCEPT !.complex_comparison = o.row]>>
                            ELSE after_first
    /\ UNCHANGED <<today, kb_price, real_transaction, compared, feed,
                   apartment_complex, listing, notCompare>>

RerunNext ==
    \/ RunCrawl
    \/ RunTransactions
    \/ RunKb
    \/ RunCompare

SpecRerun == RerunInit /\ [][RerunNext]_vars

C26_NormalizeIdempotent ==
    /\ (returned /\ call_fn = "kb_normalize_name") =>
          /\ kb_normalize_name(call_ret[1]) = call_ret[1]
          /\ call_ret[1] # <<>> =>
                calc_match_score(call_ret[1], call_ret[1]) = 100
    /\ (returned /\ call_fn = "rt_normalize_name") =>
          rt_normalize_name(call_ret[1]) = call_ret[1]

\* C27: match_complex returns a complex only if its score against the
\* target is 40 or more and no complex of the list scores higher; it
\* returns None for an empty list and when every complex scores under 40.
C27_BestCandidateOrNone ==
    (returned /\ call_fn = "match_complex") =>
        LET Score(i) ==
                calc_match_score(kb_normalize_name(call_arg.complex_name),
                                 kb_normalize_name(call_arg.complexes[i]))
            all == 1..Len(call_arg.complexes)
        IN  /\ call_ret # <<>> =>
                  /\ call_ret[1] \in all
                  /\ Score(call_ret[1]) >= 40
                  /\ \A i \in all : Score(i) <= Score(call_ret[1])
            /\ (\A i \in all : Score(i) < 40) => call_ret = <<>>

\* A list whose first complex scores 40 and whose second scores 70 gave
\* the second.
C27_Witness ==
    /\ returned
    /\ call_fn = "match_complex"
    /\ Len(call_arg.complexes) = 2
    /\ calc_match_score(kb_normalize_name(call_arg.complex_name),
                        kb_normalize_name(call_arg.complexes[1])) = 40
    /\ calc_match_score(kb_normalize_name(call_arg.complex_name),
                        kb_normalize_name(call_arg.complexes[2])) = 70
    /\ call_ret = <<2>>

\* C28: a crawl that finds the complex of a listing id stored leaves its
\* name as it is, whatever name the source reports for the id.
C28_NameKept ==
    (returned /\ call_fn = "upsert_complex" /\ call_arg.existing # <<>>
        /\ call_arg.complex_data.complexNo # "") =>
        call_ret[1].name = call_arg.existing[1].name

\* C24: the discount rate written to a Comparison row differs from
\* (mid - deal) / mid * 100 by less than 0.01, is positive exactly when the
\* deal price is below the midpoint, and is 8.00 for mid 250000 and deal
\* 230000.
C24_DiscountRate ==
    (returned /\ call_fn = "discount_rate" /\ call_ret # <<>>) =>
        LET kb_mid == call_arg[1]
            deal_price == call_arg[2]
            h == call_ret[1]
            diff == h * kb_mid - (kb_mid - deal_price) * 10000
        IN  /\ diff < kb_mid /\ -diff < kb_mid
            /\ (h > 0) <=> (deal_price < kb_mid)
            /\ (kb_mid = 250000 /\ deal_price = 230000) => h = 800

\* C24, amended: the discount rate written to a Comparison row is the
\* hundredth nearest to (mid - deal) / mid * 100, is positive only when the
\* deal price is below the midpoint and negative only when it is above, and
\* is 8.00 for mid 250000 and deal 230000.
C24_DiscountRateRounded ==
    (returned /\ call_fn = "discount_rate" /\ call_ret # <<>>) =>
        LET kb_mid == call_arg[1]
            deal_price == call_arg[2]
            h == call_ret[1]
            diff == h * kb_mid - (kb_mid - deal_price) * 10000
        IN  /\ 2 * diff <= kb_mid /\ -2 * diff <= kb_mid
            /\ (h > 0) => (deal_price < kb_mid)
            /\ (h < 0) => (deal_price > kb_mid)
            /\ (kb_mid = 250000 /\ deal_price = 230000) => h = 800

\* A deal 100,000 won under a midpoint of 2.5 billion won got the rate
\* 0.00.
C24_Witness ==
    /\ returned
    /\ call_fn = "discount_rate"
    /\ call_arg = <<250000, 249990>>
    /\ call_ret = <<0>>

\* ------------------------------------------------------------------------
\* SpecBatch: scripts/batch_crawl.py, run_batch and
\* crawl_region_with_cooldown
\* ------------------------------------------------------------------------
\* the regions of the batch
BatchRegions == NumRegions + 1

\* the cooldown starts only above the limit
AtLimitStrict(count, limit) == count > limit

\* if call_count >= limit
AtLimit(count, limit) == count >= limit

\* run_batch has made its crawler, whose client has counted no call.
BatchInit ==
    /\ api_call_count = 0
    /\ batch_pc = "check"
    /\ region_index = 1
    /\ call_count = 0
    /\ waited = 0
    /\ progress = {}
    /\ hist_pc = "off"
    /\ hist_at = 0
    /\ hist_runs = 0
    /\ fetched = {}
    /\ collected = [u \in Units |-> [calls |-> 0, when_done |-> 0]]
    /\ FetchOff
    /\ KbOff
    /\ TxOff
    /\ CrawlOff
    /\ PagesOff
    /\ SchedOff
    /\ IngestOff
    /\ CallOff
    /\ CompareOff
    /\ JobOff

\* crawl_region_with_cooldown up to its first await: the counter is read
\* and compared with the limit.
BatchRegionBegin ==
    /\ batch_pc = "check"
    /\ call_count' = api_call_count
    /\ waited' = 0
    /\ batch_pc' = IF AtLimit(api_call_count, BATCH_API_CALL_LIMIT) THEN "cooldown"
                   ELSE IF region_index > 1 THEN "pause"
                   ELSE "crawl"
    /\ UNCHANGED <<api_call_count, region_index, progress, hist_pc, hist_at,
                   hist_runs, fetched, collected, notScripts>>

\* asyncio.sleep(cooldown) is over: the counter is reset.
BatchCooldownOver ==
    /\ batch_pc = "cooldown"
    /\ waited' = BATCH_COOLDOWN_SECONDS
    /\ api_call_count' = 0
    /\ batch_pc' = "crawl"
    /\ UNCHANGED <<region_index, call_count, progress, hist_pc, hist_at,
                   hist_runs, fetched, collected, notScripts>>

\* asyncio.sleep(30) between two regions is over.
BatchPauseOver ==
    /\ batch_pc = "pause"
    /\ waited' = 30
    /\ batch_pc' = "crawl"
    /\ UNCHANGED <<api_call_count, region_index, call_count, progress, hist_pc,
                   hist_at, hist_runs, fetched, collected, notScripts>>

\* crawler.crawl_region returns or raises, its client having counted the
\* GETs the crawl issued; run_batch goes on to the next region.
BatchCrawlRegion ==
    /\ batch_pc = "crawl"
    /\ \E n \in 0..MaxRegionCalls : api_call_count' = api_call_count + n
    /\ IF region_index < BatchRegions
       THEN /\ region_index' = region_index + 1
            /\ batch_pc' = "check"
       ELSE /\ batch_pc' = "done"
            /\ UNCHANGED region_index
    /\ UNCHANGED <<call_count, waited, progress, hist_pc, hist_at, hist_runs,
                   fetched, collected, notScripts>>

BatchNext ==
    \/ BatchRegionBegin
    \/ BatchCooldownOver
    \/ BatchPauseOver
    \/ BatchCrawlRegion

SpecBatch == BatchInit /\ [][BatchNext]_vars

\* ------------------------------------------------------------------------
\* SpecHistorical: scripts/collect_historical.py, run
\* ------------------------------------------------------------------------
\* for deal_ymd in months: for region in regions
UnitSeq ==
    [i \in 1..(MaxMonths * NumRegions) |->
        <<((i - 1) \div NumRegions) + 1, ((i - 1) % NumRegions) + 1>>]

\* What collect_and_save does for a unit:
\*   "fetched" - the source handed over the unit's transactions (which may
\*               be none) and they were saved; the summary is returned
\*   "failed"  - the fetch failed (retries exhausted, access denied or a
\*               response that does not parse): fetch_all_transactions
\*               breaks with what it has, fetch_by_region returns [], and
\*               the summary with fetched = 0 is returned
\*   "raised"  - the transactions were fetched and save_transactions raised
CollectOutcomes == {"fetched", "failed", "raised"}

\* done.add(key); _save_progress(done): reached whenever collect_and_save
\* returns
Recorded(outcome) == outcome # "raised"

\* The script has not run yet: there is no progress file.
HistInit ==
    /\ api_call_count = 0
    /\ batch_pc = "off"
    /\ region_index = 0
    /\ call_count = 0
    /\ waited = 0
    /\ progress = {}
    /\ hist_pc = "idle"
    /\ hist_at = 0
    /\ hist_runs = 0
    /\ fetched = {}
    /\ collected = [u \in Units |-> [calls |-> 0, when_done |-> 0]]
    /\ FetchOff
    /\ KbOff
    /\ TxOff
    /\ CrawlOff
    /\ PagesOff
    /\ SchedOff
    /\ IngestOff
    /\ CallOff
    /\ CompareOff
    /\ JobOff

\* The script is started: done = _load_progress().
HistRunBegin ==
    /\ hist_pc = "idle"
    /\ hist_runs < NumRuns
    /\ hist_runs' = hist_runs + 1
    /\ hist_pc' = "running"
    /\ hist_at' = 1
    /\ UNCHANGED <<api_call_count, batch_pc, region_index, call_count, waited,
                   progress, fetched, collected, notScripts>>

\* One pass of the inner loop: a unit that is in done is passed over, for
\* any other collect_and_save is awaited and, when it returns, the unit is
\* added to done and the progress file written.
HistUnit ==
    /\ hist_pc = "running"
    /\ hist_at <= Len(UnitSeq)
    /\ hist_at' = hist_at + 1
    /\ LET key == UnitSeq[hist_at]
       IN  IF key \in progress
           THEN UNCHANGED <<progress, fetched, collected>>
           ELSE \E outcome \in CollectOutcomes :
                  /\ fetched' = IF outcome = "failed" THEN fetched
                                ELSE fetched \cup {key}
                  /\ progress' = IF Recorded(outcome) THEN progress \cup {key}
                               ELSE progress
                  /\ collected' = [collected EXCEPT ![key] =
                                  [calls |-> @.calls + 1,
                                   when_done |-> IF Recorded(outcome)
                                                 THEN @.calls + 1 ELSE 0]]
    /\ UNCHANGED <<api_call_count, batch_pc, region_index, call_count, waited,
                   hist_pc, hist_runs, notScripts>>

\* run() returns after the last unit, or the script is stopped before.
HistRunEnd ==
    /\ hist_pc = "running"
    /\ hist_pc' = "idle"
    /\ UNCHANGED <<api_call_count, batch_pc, region_index, call_count, waited,
                   progress, hist_at, hist_runs, fetched, collected, notScripts>>

HistNext ==
    \/ HistRunBegin
    \/ HistUnit
    \/ HistRunEnd

SpecHistorical == HistInit /\ [][HistNext]_vars

\* ------------------------------------------------------------------------
\* Claims about the end of the retry loop
\* ------------------------------------------------------------------------
\* C35: within one fetch every backoff sleep is followed by another
\* attempt: a call that sleeps has an iteration of the retry loop left, so
\* the last failed attempt returns its failure without sleeping, whatever
\* made it fail.
C35_BackoffThenAttempt ==
    \A c \in Callers :
        cpc[c] = "backoff" => LoopContinues(attempt[c])

\* ------------------------------------------------------------------------
\* Claims about the end of the parallel KB batch
\* ------------------------------------------------------------------------
\* C31: every group task gives the semaphore back on whichever path it
\* ends, so the batch comes to its end: eventually, and from then on, the
\* run is over, every group has been processed by its task, and the
\* semaphore holds its full value again, also when there are more groups
\* than the semaphore admits.
C31_BatchEndsGateReleased ==
    <>[]( /\ phase = "done"
          /\ \A g \in Keys :
                /\ gpc[g] = (IF GroupBy(g) # <<>> THEN "done" ELSE "none")
                /\ gpc[g] = "done" => sem = concurrency )

\* C31 witness: a finished run of more groups than the semaphore admits,
\* one group ended by an empty list, the other with a complex that failed
\* and rolled back, and the semaphore back at its full value.
C31_Witness ==
    /\ phase = "done"
    /\ Cardinality({g \in Keys : gpc[g] = "done"}) > concurrency
    /\ sem = concurrency
    /\ \E g \in Keys : gpc[g] = "done" /\ kb_list[g] = {}
    /\ \E g \in Keys : gpc[g] = "done" /\ kb_list[g] # {}
                        /\ lastRollback.by # 0 /\ dong_code[lastRollback.by] = g

\* ------------------------------------------------------------------------
\* Claims about the cache of save_transactions
\* ------------------------------------------------------------------------
\* C32: within one call of save_transactions, _match_complex is called at
\* most once for an apt_name, all records of one apt_name are given the
\* same complex_id, and at most one complex is created for an apt_name.
C32_OneLookupPerName ==
    (call_fn = "save_transactions" /\ returned) =>
        LET t == call_ret[1]
            Once(q) == \A i \in DOMAIN q : \A j \in DOMAIN q :
                           q[i] = q[j] => i = j
        IN  /\ Once(t.lookups)
            /\ Once(t.created)
            /\ \A i \in DOMAIN t.attached : \A j \in DOMAIN t.attached :
                  t.attached[i][1] = t.attached[j][1]
                      => t.attached[i][2] = t.attached[j][2]

\* C32 witness: a call over three records, the first and the last of one
\* name that matches a stored complex only by its normalized form, between
\* them a record whose new complex holds that name as a part: one lookup
\* for the name, one complex created, both records at the stored complex.
C32_Witness ==
    /\ call_fn = "save_transactions" /\ returned
    /\ call_arg.transactions = <<<<"ga", "ji">>, <<"ga", "ji", "ga">>, <<"ga", "ji">>>>
    /\ call_arg.rows = <<<<"ga", " ", "ji">>>>
    /\ call_ret[1].lookups = <<<<"ga", "ji">>, <<"ga", "ji", "ga">>>>
    /\ call_ret[1].created = <<<<"ga", "ji", "ga">>>>
    /\ call_ret[1].attached =
          <<<<<<"ga", "ji">>, 1>>, <<<<"ga", "ji", "ga">>, 2>>, <<<<"ga", "ji">>, 1>>>>

\* ------------------------------------------------------------------------
\* Claims about get_all_prices
\* ------------------------------------------------------------------------
\* C33: whatever the area types and whatever the price calls do,
\* get_all_prices returns records; each has a mid price, no two have the
\* same area rounded to a tenth, and a type whose price call failed or gave
\* no mid price does not keep a later type of the same rounded area, whose
\* call gives a mid price, from being returned.
C33_PricesPerArea ==
    (call_fn = "get_all_prices" /\ returned) =>
        /\ call_ret # <<>>
        /\ LET prices == call_ret[1]
               types == call_arg.types
               answers == call_arg.answers
               Usable(i) == types[i].area_seq # 0 /\ types[i].area > 0
               Priced(i) == answers[i].kind = "record" /\ answers[i].mid # <<>>
           IN  /\ \A k \in DOMAIN prices : prices[k].price_mid # <<>>
               /\ \A k \in DOMAIN prices : \A l \in DOMAIN prices :
                     Round1(prices[k].area_sqm) = Round1(prices[l].area_sqm)
                         => k = l
               /\ \A i \in DOMAIN types : \A j \in DOMAIN types :
                     ( /\ i < j
                       /\ Usable(i) /\ ~Priced(i)
                       /\ Usable(j) /\ Priced(j)
                       /\ Round1(types[i].area) = Round1(types[j].area) )
                         => \E k \in DOMAIN prices :
                               Round1(prices[k].area_sqm) = Round1(types[j].area)

\* ------------------------------------------------------------------------
\* Claims about _find_sigungu_code
\* ------------------------------------------------------------------------
\* C40: when the list holds the district whose name equals the configured
\* one, _find_sigungu_code returns the code of that district, whatever the
\* order of the list and whatever other names contain the name.
C40_CodeOfNamedDistrict ==
    (call_fn = "find_sigungu_code" /\ returned) =>
        \A i \in DOMAIN call_arg.regions :
            call_arg.regions[i].cortarName = call_arg.sigungu
                => call_ret = <<call_arg.regions[i].cortarNo>>

\* ------------------------------------------------------------------------
\* Claims about the batch crawl and the historical collection
\* ------------------------------------------------------------------------
\* C34: the crawl of a region starts with api_call_count below the limit.
\* When the counter had reached the limit, the cooldown was waited and the
\* counter is 0; when it had not, 30 s were waited unless the region is
\* the first; and the counter goes down only as a cooldown ends, to 0.
C34_RegionStartsBelowLimit ==
    /\ [](batch_pc = "crawl" =>
            /\ api_call_count < BATCH_API_CALL_LIMIT
            /\ IF call_count >= BATCH_API_CALL_LIMIT
               THEN waited = BATCH_COOLDOWN_SECONDS /\ api_call_count = 0
               ELSE waited = (IF region_index > 1 THEN 30 ELSE 0))
    /\ [][api_call_count' < api_call_count
             => (batch_pc = "cooldown" /\ api_call_count' = 0)]_vars

\* C34 witness: the third region starts after a cooldown, the counter, which
\* had passed the limit, back at 0.
C34_Witness ==
    /\ batch_pc = "crawl"
    /\ region_index = 3
    /\ call_count > BATCH_API_CALL_LIMIT
    /\ waited = BATCH_COOLDOWN_SECONDS
    /\ api_call_count = 0

\* C39: a unit is in the progress file only when its transactions were
\* fetched from the source, so that a unit whose fetch failed is collected for
\* again by the next run; and a unit in the file is not collected for again.
C39_DoneMeansFetched ==
    \A u \in progress :
        /\ u \in fetched
        /\ collected[u].calls = collected[u].when_done

\* ------------------------------------------------------------------------
\* Claims about a failed article-list request
\* ------------------------------------------------------------------------
\* C36: when the article-list request of a complex fails, on the first page
\* or on a later one, crawl_complex leaves is_active of the stored listings
\* that the request could have returned as it was: a listing of the complex
\* that the source still holds, that was active when the full crawl began
\* and whose article was not fetched, is still active after crawl_complex.
C36_FailedFetchKeepsActive ==
    (crawl_mode = "full" /\ crawl_pc # "idle" /\ lastCx # 0) =>
        \A a \in SourceArticles(snap, lastCx) \ lastIds :
            base.listings[a].active => sess.listings[a].active

\* C37: a comparison pass returns whatever the kb_price table holds, a row
\* with price_mid 0 included, and updated + skipped of the pass is the
\* number of kb_price rows.
C37_PassCompletes ==
    compared # <<>> =>
        /\ ~compared[1].raised
        /\ compared[1].updated + compared[1].skipped = Len(kb_price)

\* ------------------------------------------------------------------------
\* SpecJob: run_real_transaction_job, one session for all target regions
\* ------------------------------------------------------------------------
\* A record of a region as save_transactions meets it: its apt_name matches
\* a complex and the deal is not stored ("known") or is stored ("dup"), or
\* its apt_name matches no complex ("new").
JobTxs == {"known", "dup", "new"}

\* What fetch_by_region hands to collect_and_save, the empty list included.
JobBatches == UNION {[1..n -> JobTxs] : n \in 0..MaxRecords}

NoRows == [g \in 1..NumRegions |-> 0]

\* The session after an exception that leaves its state and rows alone.
FlushFailedKeeps(state, rows) == [state |-> state, new |-> rows]

\* The session after db.flush() raised: the flush rolls the transaction
\* back, which expunges the rows the session had added, and the session
\* takes no statement before rollback() is called on it.
FlushFailed(state, rows) == [state |-> "inactive", new |-> NoRows]

\* db = SessionLocal(), before the loop over the target regions
JobInit ==
    /\ job_pc = "region"
    /\ job_region = 1
    /\ db_session = "active"
    /\ job_batch = <<>>
    /\ name_cached = FALSE
    /\ job_saved = 0
    /\ job_created = 0
    /\ session_new = NoRows
    /\ persisted = NoRows
    /\ failed_regions = {}
    /\ lost_rows = NoRows
    /\ FetchOff
    /\ KbOff
    /\ TxOff
    /\ CrawlOff
    /\ PagesOff
    /\ SchedOff
    /\ IngestOff
    /\ CallOff
    /\ CompareOff
    /\ ScriptsOff

\* collect_and_save of the next region: with nothing fetched it returns the
\* empty summary, else save_transactions begins.
JobCollect ==
    /\ job_pc = "region"
    /\ job_region <= NumRegions
    /\ \E b \in JobBatches :
          IF b = <<>>
          THEN /\ job_region' = job_region + 1
               /\ UNCHANGED <<job_pc, job_batch, name_cached, job_saved,
                              job_created>>
          ELSE /\ job_pc' = "loop"
               /\ job_batch' = b
               /\ name_cached' = FALSE
               /\ job_saved' = 0
               /\ job_created' = 0
               /\ UNCHANGED job_region
    /\ UNCHANGED <<db_session, session_new, persisted, failed_regions,
                   lost_rows, notJob>>

\* One pass of the loop of save_transactions.  On a session that is
\* inactive the first query raises; _create_complex of a name that is not
\* in match_cache adds the complex and flushes, which may raise.  What is
\* raised passes collect_and_save and is logged by the job, which goes on
\* to the next region without a rollback.  A record that is no duplicate is
\* added to the session; after the last record the call commits if it
\* saved or created anything, and returns.
JobRecord ==
    /\ job_pc = "loop"
    /\ LET tx == Head(job_batch)
           g == job_region
           create == tx = "new" /\ ~name_cached
           with_complex == IF create
                           THEN [session_new EXCEPT ![g] = @ + 1]
                           ELSE session_new
       IN  IF db_session = "inactive"
           THEN /\ failed_regions' = failed_regions \cup {g}
                /\ job_pc' = "region"
                /\ job_region' = g + 1
                /\ job_batch' = <<>>
                /\ UNCHANGED <<db_session, session_new, lost_rows,
                               name_cached, job_saved, job_created>>
           ELSE \E fl \in IF create THEN FlushOutcomes ELSE {"ok"} :
                  IF fl = "IntegrityError"
                  THEN LET after == FlushFailed(db_session, with_complex)
                       IN  /\ db_session' = after.state
                           /\ session_new' = after.new
                           /\ lost_rows' =
                                  [lost_rows EXCEPT ![g] = with_complex[g]]
                           /\ failed_regions' = failed_regions \cup {g}
                           /\ job_pc' = "region"
                           /\ job_region' = g + 1
                           /\ job_batch' = <<>>
                           /\ UNCHANGED <<name_cached, job_saved,
                                          job_created>>
                  ELSE LET saved == IF tx = "dup" THEN job_saved
                                    ELSE job_saved + 1
                           made == IF create THEN job_created + 1
                                   ELSE job_created
                           last == Tail(job_batch) = <<>>
                       IN  /\ session_new' =
                                  IF tx = "dup" THEN with_complex
                                  ELSE [with_complex EXCEPT ![g] = @ + 1]
                           /\ name_cached' = (name_cached \/ tx = "new")
                           /\ job_saved' = saved
                           /\ job_created' = made
                           /\ job_batch' = Tail(job_batch)
                           /\ job_pc' = IF ~last THEN "loop"
                                        ELSE IF saved > 0 \/ made > 0
                                        THEN "commit"
                                        ELSE "region"
                           /\ job_region' =
                                  IF last /\ saved = 0 /\ made = 0
                                  THEN g + 1 ELSE g
                           /\ UNCHANGED <<db_session, lost_rows,
                                          failed_regions>>
    /\ UNCHANGED <<persisted, notJob>>

\* db.commit() of save_transactions: every row the session holds is
\* committed, and the call returns
JobCommit ==
    /\ job_pc = "commit"
    /\ persisted' = [g \in 1..NumRegions |-> persisted[g] + session_new[g]]
    /\ session_new' = NoRows
    /\ job_pc' = "region"
    /\ job_region' = job_region + 1
    /\ UNCHANGED <<db_session, job_batch, name_cached, job_saved,
                   job_created, failed_regions, lost_rows, notJob>>

\* After the last region: finally db.close()
JobEnd ==
    /\ job_pc = "region"
    /\ job_region > NumRegions
    /\ job_pc' = "done"
    /\ db_session' = "closed"
    /\ session_new' = NoRows
    /\ UNCHANGED <<job_region, job_batch, name_cached, job_saved,
                   job_created, persisted, failed_regions, lost_rows,
                   notJob>>

JobNext ==
    \/ JobCollect
    \/ JobRecord
    \/ JobCommit
    \/ JobEnd

SpecJob == JobInit /\ [][JobNext]_vars

\* C38: in the scheduled transactions job no row that a region added
\* before its ingestion raised is committed, by the commit of a later
\* region or otherwise.
C38_FailedRegionNotPersisted ==
    \A g \in failed_regions : persisted[g] = 0

\* The ingestion of a region raised after it had added two rows, and the
\* job went on to a later region and ended.
C38_Witness ==
    /\ job_pc = "done"
    /\ \E g \in failed_regions :
          /\ g < NumRegions
          /\ lost_rows[g] >= 2
          /\ persisted[g] = 0

====
